---- MODULE Spec2Model ----
(***************************************************************************)
(* Model of the recommendation engine of backend/recommender/utils.py:     *)
(* the process-wide RECOMMENDER_DATA_CACHE, its builder                    *)
(* build_interaction_data_and_matrices, the request entry point            *)
(* get_recommendations_for_user and prime_recommender_cache_on_startup,    *)
(* run by request-handling threads over the relational store.              *)
(*                                                                         *)
(* Conventions.                                                            *)
(*  - Python None is the empty tuple None == <<>>; a value x held by a     *)
(*    cache key or a local is the one-element tuple <<x>>.                 *)
(*  - A text is a tuple of one-character strings.                          *)
(*  - Real-valued scores are kept as exact integers: cosine similarities   *)
(*    in 1/100 (rounded down), fallback scores in 1/100, boosted CF        *)
(*    aggregate scores in 1/10000.                                         *)
(*  - A dict is a function; a DataFrame is a record of its index, its      *)
(*    columns and its cells.                                               *)
(***************************************************************************)
EXTENDS Integers, Sequences, FiniteSets, TLC

VARIABLES
    cache,         \* RECOMMENDER_DATA_CACHE: key -> None or <<value>>
    writer,        \* per key: the thread whose build last wrote it (0: nobody)
    interactions,  \* UserVideoInteraction rows: <<user, video>> -> interaction_score
    follows,       \* Follow rows: set of <<user_id, followed_user_id>>
    videos,        \* ids of the Video rows
    posts,         \* ids of the Post rows
    impressions,   \* AdImpression rows of today: <<ad, user>> -> count
    changes,       \* number of writes made to the store so far
    lastBuild,     \* TRUE iff the last thing that happened was a completed non-forced build
    pc,            \* per thread: the statement it is at
    loc,           \* per thread: its locals
    uvi,           \* one UserVideoInteraction row: its fields and the score last read
    active_chat_connections,  \* websocket server: user_id -> socket
    video_rooms,   \* websocket server: room_id -> the dict user_id -> socket
    sockets,       \* websocket server: per socket, its handler and what it was sent
    tok,           \* _tokenize_text: the text of the last call and what it returned
    db,            \* the tables the request handlers and signal handlers write
    hs             \* per handler thread: the request it serves and its locals

\* the variables of the recommendation engine
recvars == <<cache, writer, interactions, follows, videos, posts, impressions,
             changes, lastBuild, pc, loc>>
\* the variables of the websocket server
wsvars == <<active_chat_connections, video_rooms, sockets>>
\* the variables outside the recommendation engine
outside == <<uvi, active_chat_connections, video_rooms, sockets, tok, db, hs>>
\* the variables of the tokenizer and of the handlers that write the tables
appvars == <<tok, db, hs>>
vars == <<cache, writer, interactions, follows, videos, posts, impressions,
          changes, lastBuild, pc, loc, uvi, active_chat_connections, video_rooms,
          sockets, tok, db, hs>>

(***************************************************************************)
(* Bounds of the model.                                                    *)
(***************************************************************************)
NumUsers == 2
MaxVideos == 3
MaxPosts == 16
MaxLimit == 16
MaxDataChanges == 1
NumAds == 2
MaxTime == 3

(***************************************************************************)
(* Program constants.                                                      *)
(***************************************************************************)
MaxImpressionsPerDay == 3
AdIntervalMin == 7
AdIntervalMax == 10
\* weights of get_fallback_video_recommendations, in 1/100
VIEW_COUNT_WEIGHT == 20
WATCH_TIME_WEIGHT == 10
LIKES_WEIGHT == 30
COMMENTS_WEIGHT == 25
KEYWORD_BOOST_FACTOR == 10
FOLLOWED_CREATOR_BOOST_FACTOR == 50

None == <<>>
Some(x) == <<x>>
Val(o) == o[1]

Threads == {1, 2}
SeqThreads == {1}

Users == 1..NumUsers
\* ids a request may carry: the users, and one id that matches no User row
UserIds == 1..(NumUsers + 1)
VideoIds == 1..MaxVideos
AdIds == 1..NumAds
Limits == {-1, 0, 1, 2, MaxLimit}
\* values of UserVideoInteraction.interaction_score the store may hold
ScoreVals == {-2, 0, 3, 5}

(***************************************************************************)
(* Generic helpers.                                                        *)
(***************************************************************************)
Min(a, b) == IF a < b THEN a ELSE b
Abs(x) == IF x < 0 THEN -x ELSE x
Range(s) == {s[i] : i \in DOMAIN s}

RECURSIVE SortedSeq(_)
\* the elements of a finite set of integers in ascending order
SortedSeq(S) ==
    IF S = {} THEN <<>>
    ELSE LET m == CHOOSE x \in S : \A y \in S : x <= y
         IN <<m>> \o SortedSeq(S \ {m})

RECURSIVE SumOver(_, _)
\* sum of f[x] over x in S
SumOver(f, S) ==
    IF S = {} THEN 0
    ELSE LET x == CHOOSE y \in S : TRUE
         IN f[x] + SumOver(f, S \ {x})

\* all orderings of a finite set
Perms(S) == {s \in [1..Cardinality(S) -> S] : \A i, j \in DOMAIN s : i # j => s[i] # s[j]}

(***************************************************************************)
(* _tokenize_text                                                          *)
(***************************************************************************)
WordChars == {"a", "b", "c", "d", "g", "i", "o", "t", "A", "C", "D", "1", "_"}
Lower(c) == CASE c = "A" -> "a" [] c = "C" -> "c" [] c = "D" -> "d" [] OTHER -> c
LowerText(text) == [i \in DOMAIN text |-> Lower(text[i])]

RECURSIVE RunEnd(_, _)
\* last position of the run of word characters that starts at i
RunEnd(s, i) ==
    IF i < Len(s) /\ s[i + 1] \in WordChars THEN RunEnd(s, i + 1) ELSE i

RECURSIVE FindAll(_, _)
\* re.findall(r'(?:#\w+|\@\w+|\b\w+\b)', s) scanning from position i
FindAll(s, i) ==
    IF i > Len(s) THEN <<>>
    ELSE IF s[i] \in {"#", "@"} /\ i < Len(s) /\ s[i + 1] \in WordChars
         THEN LET j == RunEnd(s, i + 1) IN <<SubSeq(s, i, j)>> \o FindAll(s, j + 1)
    ELSE IF s[i] \in WordChars /\ (i = 1 \/ s[i - 1] \notin WordChars)
         THEN LET j == RunEnd(s, i) IN <<SubSeq(s, i, j)>> \o FindAll(s, j + 1)
    ELSE FindAll(s, i + 1)

\* every match of the pattern, whatever its length
tokenize_unfiltered(text) ==
    IF text = None THEN <<>> ELSE FindAll(LowerText(text), 1)
_tokenize_text(text) ==
    IF text = None THEN <<>>
    ELSE LET tokens == FindAll(LowerText(text), 1)
         IN SelectSeq(tokens, LAMBDA token :
                Len(token) > 2 \/ token[1] = "#" \/ token[1] = "@")

(***************************************************************************)
(* The rows of the store that no operation of the model changes.           *)
(***************************************************************************)
\* User.is_superuser
IsSuperuser(u) == u = 1
\* Post.user ; Post.created_at grows with the id
PostUser(p) == ((p - 1) % NumUsers) + 1
\* Post.keywords
PostKeywords(p) ==
    CASE p = 1 -> <<"c", "a", "t", ",", " ", "g", "o">>
      [] p = 2 -> <<"D", "o", "g">>
      [] OTHER -> None
\* Video.uploader ; Video.upload_timestamp grows with the id
VideoUploader(v) == ((v - 1) % NumUsers) + 1
\* Video.tags
VideoTags(v) ==
    CASE v = 1 -> <<"c", "a", "t", ",", "a", "i">>
      [] v = 2 -> <<"d", "o", "g">>
      [] OTHER -> None
\* Video.description
VideoDescription(v) ==
    CASE v = 1 -> <<"#", "a", " ", "C", "a", "t">>
      [] OTHER -> None
\* Video.source_post: video 1 comes from post 1 when that post exists
VideoSourcePost(v, ps) == IF v = 1 /\ 1 \in ps THEN Some(1) ELSE None
\* Post.view_count, Post.watch_time, number of likes and of comments
PostViewCount(p) == 2
PostWatchTime(p) == 0
PostLikes(p) == 1
PostComments(p) == 0
\* Ad.status, Ad.target_time_of_day_start, Ad.target_time_of_day_end
AdStatus(a) == IF a <= 2 THEN "live" ELSE "paused"
AdStart(a) == IF a = 2 THEN Some(2) ELSE None
AdEnd(a) == IF a = 2 THEN Some(2) ELSE None
\* Ad.keywords, as the set of the comma-separated keywords
AdKeywords(a) == IF a = 2 THEN {"travel", "japan"} ELSE {"cars"}
\* UserInterestProfile.keywords_summary: the score of each keyword of the user
keywords_summary(u) == IF u = 1 THEN [k \in {"travel"} |-> 2] ELSE <<>>

(***************************************************************************)
(* The values build_interaction_data_and_matrices derives from the store.  *)
(***************************************************************************)
Keys == {"user_item_matrix_df", "item_similarity_matrix",
         "video_id_to_idx", "video_idx_to_id", "user_id_to_idx", "user_idx_to_id",
         "video_features_map", "all_post_keywords", "user_follows_map"}
CFKeys == {"user_item_matrix_df", "item_similarity_matrix",
           "video_id_to_idx", "video_idx_to_id", "user_id_to_idx", "user_idx_to_id"}

\* a DataFrame with one row and one column
FilledDataFrame == [index |-> <<1>>, columns |-> <<1>>, cell |-> [p \in {<<1, 1>>} |-> 3]]
\* pd.DataFrame()
EmptyDataFrame == [index |-> <<>>, columns |-> <<>>, cell |-> <<>>]
\* {}
EmptyDict == <<>>

\* every record kept, zero-scored or not
all_interactions(I) == DOMAIN I
\* the records kept by the comprehension: interaction_score != 0
interaction_list(I) == {p \in DOMAIN I : I[p] # 0}

\* df.pivot_table(index='user_id', columns='video_id', values='score').fillna(0)
pivot_table(I) ==
    LET nz == interaction_list(I)
        index == SortedSeq({p[1] : p \in nz})
        columns == SortedSeq({p[2] : p \in nz})
    IN [index |-> index, columns |-> columns,
        cell |-> [p \in Range(index) \X Range(columns) |->
                     IF p \in nz THEN I[p] ELSE 0]]

\* {id: i for i, id in enumerate(ids)}
id_to_idx(ids) == [x \in Range(ids) |-> (CHOOSE i \in DOMAIN ids : ids[i] = x) - 1]
\* the ids numbered from 1
enumerate_from_one(ids) == [i \in 1..Len(ids) |-> ids[i]]
\* {i: id for i, id in enumerate(ids)}
idx_to_id(ids) == [i \in 0..(Len(ids) - 1) |-> ids[i + 1]]

\* cosine of two vectors from their dot product and squared norms, in 1/100
Cos100(d, na, nb) ==
    IF na = 0 \/ nb = 0 THEN 0
    ELSE LET q == (d * d * 10000) \div (na * nb)
             r == CHOOSE x \in 0..100 : x * x <= q /\ (x + 1) * (x + 1) > q
         IN IF d < 0 THEN -r ELSE r

\* cosine_similarity(sp.csr_matrix(user_item_df.T.values), dense_output=False)
cosine_similarity(df) ==
    LET n == Len(df.columns)
        dot(i, j) == SumOver([u \in Range(df.index) |->
                        df.cell[<<u, df.columns[i + 1]>>] * df.cell[<<u, df.columns[j + 1]>>]],
                        Range(df.index))
    IN [n |-> n,
        m |-> [p \in (0..(n - 1)) \X (0..(n - 1)) |->
                  Cos100(dot(p[1], p[2]), dot(p[1], p[1]), dot(p[2], p[2]))]]

\* The assignments of step 1 (lines 105-140), in the order the code makes them.
CFWrites(I) ==
    IF DOMAIN I = {}
    THEN << <<"user_item_matrix_df", Some(EmptyDataFrame)>>,
            <<"item_similarity_matrix", None>>,
            <<"video_id_to_idx", Some(EmptyDict)>>,
            <<"video_idx_to_id", Some(EmptyDict)>>,
            <<"user_id_to_idx", Some(EmptyDict)>>,
            <<"user_idx_to_id", Some(EmptyDict)>> >>
    ELSE IF interaction_list(I) = {}
    THEN << <<"user_item_matrix_df", Some(EmptyDataFrame)>>,
            <<"item_similarity_matrix", None>> >>
    ELSE LET user_item_df == pivot_table(I)
         IN << <<"user_item_matrix_df", Some(user_item_df)>>,
               <<"user_id_to_idx", Some(id_to_idx(user_item_df.index))>>,
               <<"user_idx_to_id", Some(idx_to_id(user_item_df.index))>>,
               <<"video_id_to_idx", Some(id_to_idx(user_item_df.columns))>>,
               <<"video_idx_to_id", Some(idx_to_id(user_item_df.columns))>>,
               <<"item_similarity_matrix", Some(cosine_similarity(user_item_df))>> >>

\* step 2 (lines 154-160): {video.id: tokens of its tags and description}
video_features_map(vs) ==
    [v \in vs |-> Range(_tokenize_text(VideoTags(v)))
                    \cup Range(_tokenize_text(VideoDescription(v)))]
\* step 3 (lines 166-172): the tokens of every post's keywords
all_post_keywords(ps) == UNION {Range(_tokenize_text(PostKeywords(p))) : p \in ps}
\* step 4 (lines 194-198): {user_id: the ids the user follows}
user_follows_map(F) == [u \in {f[1] : f \in F} |-> {f[2] : f \in {g \in F : g[1] = u}}]

\* default_values (lines 180-185)
default_values(key) ==
    CASE key = "user_item_matrix_df" -> Some(EmptyDataFrame)
      [] key = "item_similarity_matrix" -> None
      [] key = "all_post_keywords" -> Some({})
      [] OTHER -> Some(EmptyDict)

RECURSIVE ApplyWrites(_, _)
\* the cache after the assignments ws
ApplyWrites(c, ws) ==
    IF ws = <<>> THEN c
    ELSE ApplyWrites([c EXCEPT ![ws[1][1]] = ws[1][2]], Tail(ws))
\* the keys the assignments ws set
WrittenKeys(ws) == {ws[i][1] : i \in DOMAIN ws}

\* lines 142-149: the assignments of the except block of step 1
CFReset ==
    << <<"user_item_matrix_df", Some(EmptyDataFrame)>>,
       <<"item_similarity_matrix", None>>,
       <<"video_id_to_idx", Some(EmptyDict)>>,
       <<"video_idx_to_id", Some(EmptyDict)>>,
       <<"user_id_to_idx", Some(EmptyDict)>>,
       <<"user_idx_to_id", Some(EmptyDict)>> >>


(***************************************************************************)
(* get_recommendations_for_user: the feed computed from the store and      *)
(* from the cache values the request read.                                 *)
(***************************************************************************)
Item(type, id) == [type |-> type, id |-> id]
Max(a, b) == IF a > b THEN a ELSE b
\* s[:n]
no_slice(s, n) == s
Slice(s, n) ==
    IF n >= 0 THEN SubSeq(s, 1, Min(Len(s), n))
    ELSE SubSeq(s, 1, Max(0, Len(s) + n))
Reverse(s) == [i \in DOMAIN s |-> s[Len(s) + 1 - i]]
\* ids in order of decreasing created_at / upload_timestamp
NewestFirst(S) == Reverse(SortedSeq(S))

RECURSIVE SortDescStable(_, _)
\* list.sort(key=score, reverse=True), np.argsort(-score): decreasing score,
\* elements of equal score in the order they had
SortDescStable(s, score) ==
    IF s = <<>> THEN <<>>
    ELSE LET i == CHOOSE k \in DOMAIN s :
                     /\ \A j \in DOMAIN s : score[s[j]] <= score[s[k]]
                     /\ \A j \in 1..(k - 1) : score[s[j]] < score[s[k]]
         IN <<s[i]>> \o SortDescStable(SubSeq(s, 1, i - 1) \o SubSeq(s, i + 1, Len(s)), score)

\* lines 221-230: posts of superusers, newest first, skipping the requester's own
superuser_posts(user_id, num_recommendations, ps) ==
    LET qs == NewestFirst({p \in ps : IsSuperuser(PostUser(p))})
        kept == SelectSeq(qs, LAMBDA p : ~(user_id \in Users /\ PostUser(p) = user_id))
    IN Slice(kept, Max(num_recommendations, 0))

\* lines 237-247: the other posts, newest first, while there is room
other_posts(user_id, num_recommendations, ps, added) ==
    IF Len(added) < num_recommendations
    THEN LET qs == NewestFirst({p \in ps \ Range(added) :
                        ~(user_id \in Users /\ PostUser(p) = user_id)})
         IN Slice(qs, num_recommendations - Len(added))
    ELSE <<>>

\* lines 208-248: recommended_items after the two post loops
post_items(user_id, num_recommendations, ps) ==
    LET su == superuser_posts(user_id, num_recommendations, ps)
        ot == other_posts(user_id, num_recommendations, ps, su)
    IN [i \in 1..(Len(su) + Len(ot)) |->
           Item("post", IF i <= Len(su) THEN su[i] ELSE ot[i - Len(su)])]

\* truth value of a dict-valued local: None and {} are false
Truthy(o) == o # None /\ DOMAIN Val(o) # {}
\* DataFrame.empty
IsEmptyDF(df) == Len(df.index) = 0 \/ Len(df.columns) = 0
\* d.get(k, default) for a dict d
Get(d, k, default) == IF k \in DOMAIN d THEN d[k] ELSE default

\* user_item_df.iloc[idx].values
user_interactions_vector(df, idx) ==
    [j \in 0..(Len(df.columns) - 1) |-> df.cell[<<df.index[idx + 1], df.columns[j + 1]>>]]
\* a user for whom no item counts as interacted
no_interacted(vec) == {}

\* np.where(vector > 0.1)[0]
interacted_indices(vec) == {j \in DOMAIN vec : vec[j] * 10 > 1}
\* ndarray.any() of an index array: some element is non-zero
AnyNonZero(S) == \E j \in S : j # 0

\* line 340
can_run_cf(snap) ==
    ~(\/ snap["user_item_matrix_df"] = None
      \/ IsEmptyDF(Val(snap["user_item_matrix_df"]))
      \/ snap["item_similarity_matrix"] = None
      \/ ~Truthy(snap["video_id_to_idx"])
      \/ ~Truthy(snap["video_idx_to_id"])
      \/ ~Truthy(snap["user_id_to_idx"]))

\* lines 351-358: sum over the interacted videos of similarity row * user score, in 1/100
aggregated_scores(sim, vec, interacted) ==
    [i \in 0..(sim.n - 1) |->
        SumOver([j \in {k \in interacted : k < sim.n} |-> sim.m[<<j, i>>] * vec[j]],
                {k \in interacted : k < sim.n})]

\* lines 365-380: the score of column i after the keyword and follow boosts, in 1/10000
boosted_score(i, current_score, i2v, vfm, kw, followed, vs) ==
    LET video_id_cf == Get(i2v, i, 0)
        matches == IF video_id_cf \in DOMAIN vfm
                   THEN Cardinality(vfm[video_id_cf] \cap kw) ELSE 0
        boost == (IF matches > 0 THEN KEYWORD_BOOST_FACTOR * matches ELSE 0)
                 + (IF video_id_cf \in vs /\ VideoUploader(video_id_cf) \in followed
                    THEN FOLLOWED_CREATOR_BOOST_FACTOR ELSE 0)
    IN IF video_id_cf = 0 THEN current_score * 100
       ELSE IF boost > 0 THEN current_score * 100 + boost * (100 + Abs(current_score))
       ELSE current_score * 100

\* the outcome of a block of statements: the ids it yields, or an exception
Raise == [raised |-> TRUE, ids |-> <<>>]
Yield(ids) == [raised |-> FALSE, ids |-> ids]
\* [f(s[1]), ..., f(s[n])] for a dict f
MapSeq(f, s) == [k \in DOMAIN s |-> f[s[k]]]

\* lines 344-394: the ids of cf_recommended_video_objects
cf_recommended(snap, kw, user_id, needed, vs) ==
    IF ~can_run_cf(snap) \/ user_id \notin DOMAIN Val(snap["user_id_to_idx"]) THEN Yield(<<>>)
    ELSE
    LET df == Val(snap["user_item_matrix_df"])
        sim == Val(snap["item_similarity_matrix"])
        i2v == Val(snap["video_idx_to_id"])
        idx == Val(snap["user_id_to_idx"])[user_id]
    IN IF ~(idx < Len(df.index)) THEN Yield(<<>>)
       ELSE
       LET vec == user_interactions_vector(df, idx)
           interacted == interacted_indices(vec)
       IN IF ~AnyNonZero(interacted) THEN Yield(<<>>)
          ELSE IF \/ snap["user_follows_map"] = None
                  \/ (snap["video_features_map"] = None
                      /\ \E i \in 0..(sim.n - 1) : i \in DOMAIN i2v)
                  \/ \E j \in interacted : j >= sim.n
          THEN Raise
          ELSE
          LET followed == Get(Val(snap["user_follows_map"]), user_id, {})
              vfm == IF snap["video_features_map"] = None THEN EmptyDict
                     ELSE Val(snap["video_features_map"])
              agg == aggregated_scores(sim, vec, interacted)
              score == [i \in 0..(sim.n - 1) |->
                           boosted_score(i, agg[i], i2v, vfm, kw, followed, vs)]
              cand == SelectSeq([k \in 1..sim.n |-> k - 1], LAMBDA i : i \notin interacted)
              recommended_cf_indices == SortDescStable(cand, score)
              mapped == SelectSeq(recommended_cf_indices, LAMBDA i : i \in DOMAIN i2v)
              temp_cf_video_ids == Slice(MapSeq(i2v, mapped), needed)
          IN Yield(SelectSeq(temp_cf_video_ids, LAMBDA v : v \in vs))

\* an exclusion set that is always empty
no_exclusion(snap, user_id) == Yield({})

\* lines 413-422: interacted_video_ids_for_fallback_exclusion
fallback_exclusion(snap, user_id) ==
    IF snap["user_id_to_idx"] = None THEN Raise
    ELSE IF user_id \notin DOMAIN Val(snap["user_id_to_idx"]) THEN Yield({})
    ELSE IF snap["user_item_matrix_df"] = None THEN Raise
    ELSE
    LET df == Val(snap["user_item_matrix_df"])
        idx == Val(snap["user_id_to_idx"])[user_id]
    IN IF ~(idx < Len(df.index)) THEN Yield({})
       ELSE LET interacted == interacted_indices(user_interactions_vector(df, idx))
            IN IF interacted = {} THEN Yield({})
               ELSE IF snap["video_idx_to_id"] = None THEN Raise
               ELSE Yield({Val(snap["video_idx_to_id"])[i] :
                              i \in interacted \cap DOMAIN Val(snap["video_idx_to_id"])})

\* a boost that does not look at the score
flat_boost(score) == FOLLOWED_CREATOR_BOOST_FACTOR
\* line 315: FOLLOWED_CREATOR_BOOST_FACTOR * (1 + score), in 1/100
followed_creator_boost(score) == (FOLLOWED_CREATOR_BOOST_FACTOR * (100 + score)) \div 100
\* lines 304-315: the score before the engagement terms, in 1/100
score_before_engagement(keyword_matches, is_followed) ==
    LET s1 == IF keyword_matches > 0 THEN KEYWORD_BOOST_FACTOR * keyword_matches ELSE 0
    IN IF is_followed THEN s1 + followed_creator_boost(s1) ELSE s1
\* lines 318-325: the engagement terms of a video, in 1/100
engagement_score(v, ps) ==
    LET sp == VideoSourcePost(v, ps)
    IN IF sp # None
       THEN PostViewCount(Val(sp)) * VIEW_COUNT_WEIGHT
               + PostWatchTime(Val(sp)) * WATCH_TIME_WEIGHT
               + PostLikes(Val(sp)) * LIKES_WEIGHT
               + PostComments(Val(sp)) * COMMENTS_WEIGHT
       ELSE 0

\* lines 303-327: the fallback score of a video, in 1/100
fallback_score(v, vfm, kw, followed, ps) ==
    LET keyword_matches == Cardinality(Get(vfm, v, {}) \cap kw)
    IN score_before_engagement(keyword_matches, VideoUploader(v) \in followed)
           + engagement_score(v, ps)

\* lines 283-336: get_fallback_video_recommendations, as ids
get_fallback_video_recommendations(num_recs, snap, kw, user_id, excluded_video_ids, vs, ps) ==
    IF snap["user_follows_map"] = None THEN Raise
    ELSE
    LET followed == Get(Val(snap["user_follows_map"]), user_id, {})
        videos_qs == NewestFirst(vs \ excluded_video_ids)
    IN IF videos_qs = <<>> THEN Yield(<<>>)
       ELSE IF snap["video_features_map"] = None THEN Raise
       ELSE LET score == [v \in Range(videos_qs) |->
                            fallback_score(v, Val(snap["video_features_map"]), kw, followed, ps)]
            IN Yield(Slice(SortDescStable(videos_qs, score), num_recs))

\* every fallback video appended, packaged already or not
append_all(packaged, fallback_video_objects) == fallback_video_objects

\* the fallback videos appended after the CF ones (lines 428-434): those not packaged yet
append_fallback(packaged, fallback_video_objects) ==
    SelectSeq(fallback_video_objects, LAMBDA v : v \notin Range(packaged))

\* lines 338-434, the video part: [raised, cf, fb], cf the ids packaged from
\* the CF ranking and fb the ids then appended from the fallback
video_recommendations(snap, kw, user_id, needed, vs, ps) ==
    LET failed == [raised |-> TRUE, cf |-> <<>>, fb |-> <<>>]
        cf == cf_recommended(snap, kw, user_id, needed, vs)
    IN IF cf.raised THEN failed
       ELSE
       LET packaged == Slice(cf.ids, needed)
           num_fallback_needed == needed - Len(packaged)
           excl == fallback_exclusion(snap, user_id)
       IN IF excl.raised THEN failed
          ELSE IF num_fallback_needed <= 0
          THEN [raised |-> FALSE, cf |-> packaged, fb |-> <<>>]
          ELSE
          LET fbv == get_fallback_video_recommendations(num_fallback_needed, snap, kw,
                                                         user_id, excl.ids, vs, ps)
          IN IF fbv.raised THEN failed
             ELSE [raised |-> FALSE, cf |-> packaged,
                   fb |-> append_fallback(packaged, fbv.ids)]

(***************************************************************************)
(* Ad selection and injection (lines 440-502).                             *)
(***************************************************************************)
\* lines 449-471: the ads that pass the time window and the daily cap
candidate_ads(user_id, now, imp) ==
    {a \in AdIds :
        /\ AdStatus(a) = "live"
        /\ IF AdStart(a) # None /\ AdEnd(a) # None
           THEN Val(AdStart(a)) <= now /\ now <= Val(AdEnd(a))
           ELSE IF AdStart(a) # None THEN ~(now < Val(AdStart(a)))
           ELSE IF AdEnd(a) # None THEN ~(now > Val(AdEnd(a)))
           ELSE TRUE
        /\ ~(Get(imp, <<a, user_id>>, 0) >= MaxImpressionsPerDay)}

\* the values random.randint(7, 10) can return (line 477, line 491)
Intervals == AdIntervalMin..AdIntervalMax
\* the values one call can draw: one before the loop, one after each ad
DrawSeqs == [1..(NumAds + 1) -> Intervals]

RECURSIVE InjectFrom(_, _, _, _, _, _)
\* lines 480-493 from item i on, draws[k] being the k-th value returned by
\* random.randint: the interval is drawn again after each injected ad
InjectFrom(items, ads, draws, i, ad_injection_interval, ad_idx) ==
    IF i > Len(items) THEN <<>>
    ELSE IF i % ad_injection_interval = 0 /\ ad_idx < Len(ads)
    THEN <<items[i], Item("ad", ads[ad_idx + 1])>>
            \o InjectFrom(items, ads, draws, i + 1, draws[ad_idx + 2], ad_idx + 1)
    ELSE <<items[i]>> \o InjectFrom(items, ads, draws, i + 1, ad_injection_interval, ad_idx)

\* the list of one outcome, the shuffle and the draws behind it left unrecorded
feed_unseeded(recommended_items, ads, draws, num_recommendations) ==
    [list |-> IF recommended_items = <<>> THEN <<>>
              ELSE Slice(InjectFrom(recommended_items, ads, draws, 1, draws[1], 0),
                         num_recommendations),
     ads |-> <<>>, draws |-> <<>>]

\* lines 475-502 for one outcome of the shuffle and of the draws: the list
\* returned, the shuffled candidates and the values drawn
feed(recommended_items, ads, draws, num_recommendations) ==
    IF recommended_items = <<>>
    THEN [list |-> Slice(recommended_items, num_recommendations), ads |-> ads,
          draws |-> <<>>]
    ELSE LET f == InjectFrom(recommended_items, ads, draws, 1, draws[1], 0)
             ad_idx == Len(f) - Len(recommended_items)
         IN [list |-> Slice(f, num_recommendations), ads |-> ads,
             draws |-> SubSeq(draws, 1, 1 + ad_idx)]

\* lines 473-502: every outcome of the call for the organic items
feeds(recommended_items, candidates, num_recommendations) ==
    {feed(recommended_items, ads, draws, num_recommendations) :
        ads \in Perms(candidates), draws \in DrawSeqs}


(***************************************************************************)
(* A UserVideoInteraction row and its interaction_score property           *)
(* (recommender/models.py lines 99-179).                                   *)
(***************************************************************************)
\* watch_time_seconds around the two thresholds of the property
WatchTimes == {0, 60, 61, 300, 301}
\* liked: null, True or False
LikedVals == {None, Some(TRUE), Some(FALSE)}
\* the fields of a row that the views can set
RowFields ==
    [watch_time_seconds : WatchTimes, liked : LikedVals, shared : BOOLEAN,
     completed_watch : BOOLEAN, commented : BOOLEAN]
\* the row created with the defaults of the fields (lines 115-137)
DefaultFields ==
    [watch_time_seconds |-> 0, liked |-> None, shared |-> FALSE,
     completed_watch |-> FALSE, commented |-> FALSE]

\* a score that adds 2 for a like
interaction_score_like2(r) ==
    (IF r.watch_time_seconds > 60 THEN 1 ELSE 0)
    + (IF r.watch_time_seconds > 300 THEN 1 ELSE 0)
    + (IF r.completed_watch THEN 2 ELSE 0)
    + (IF r.liked = Some(TRUE) THEN 2 ELSE 0)
    - (IF r.liked = Some(FALSE) THEN 2 ELSE 0)
    + (IF r.shared THEN 2 ELSE 0)
    + (IF r.commented THEN 3 ELSE 0)

\* lines 153-179: the property, statement by statement
interaction_score(r) ==
    LET s0 == 0
        s1 == IF r.watch_time_seconds > 60 THEN s0 + 1 ELSE s0
        s2 == IF r.watch_time_seconds > 300 THEN s1 + 1 ELSE s1
        s3 == IF r.completed_watch THEN s2 + 2 ELSE s2
        s4 == IF r.liked = Some(TRUE) THEN s3 + 3 ELSE s3
        s5 == IF r.liked = Some(FALSE) THEN s4 - 2 ELSE s4
        s6 == IF r.shared THEN s5 + 2 ELSE s5
        s7 == IF r.commented THEN s6 + 3 ELSE s6
    IN s7

\* the row and the last value read from its property (None: not read since
\* the row was last written)
RowInit == uvi = [fields |-> DefaultFields, score |-> None]

\* UserVideoInteractionViewSet.perform_create / perform_update: the fields
\* of the row are written
WriteRow(f) ==
    /\ uvi.fields # f
    /\ uvi' = [fields |-> f, score |-> None]
    /\ UNCHANGED recvars
    /\ UNCHANGED appvars
    /\ UNCHANGED wsvars

\* instance.interaction_score is read (utils.py line 116, signals.py line 38)
ReadScore ==
    /\ uvi.score = None
    /\ uvi' = [uvi EXCEPT !.score = Some(interaction_score(uvi.fields))]
    /\ UNCHANGED recvars
    /\ UNCHANGED appvars
    /\ UNCHANGED wsvars

(***************************************************************************)
(* The websocket server (fastapi_websocket_server/main.py).                *)
(* A handler runs from one await to the next without interruption; the     *)
(* handlers of the connections interleave at the awaits.  At most MaxConns *)
(* connections are opened, so no dict is resized: a deleted key leaves a   *)
(* hole in the entries of its dict and a new key is appended to them.      *)
(***************************************************************************)
MaxConns == 3
\* texts the clients send, all connections together: to the chat endpoint, to
\* the video endpoint
MaxTexts == 2
MaxVideoTexts == 1
Socks == 1..MaxConns
WsUsers == {"u1", "u2", "u3"}
RoomIds == {"r1", "r2"}
\* line 123
Signals == {"offer", "answer", "ice-candidate"}

\* dict.get(key): None for a missing key
get(d, key) == IF key \in DOMAIN d THEN d[key] ELSE None
\* truth value of a str or None
NonEmpty(o) == o # None /\ Val(o) # ""
\* d[key] = value
SetKey(d, key, value) == [k \in DOMAIN d \cup {key} |-> IF k = key THEN value ELSE d[k]]
\* del d[key]
DelKey(d, key) == [k \in DOMAIN d \ {key} |-> d[k]]

\* the JSON object that has the members named in keys
ObjOf(keys, type, to_user_id, data, content) ==
    [k \in keys |-> CASE k = "type" -> type
                      [] k = "to_user_id" -> to_user_id
                      [] k = "data" -> data
                      [] OTHER -> content]
\* a text a client sends: not JSON, a JSON array, or a JSON object
NoObject == ObjOf({}, None, None, None, None)
NoText == [json |-> "none", obj |-> NoObject]
BadTexts == {[json |-> "invalid", obj |-> NoObject], [json |-> "array", obj |-> NoObject]}
ChatTexts ==
    BadTexts \cup
    {[json |-> "object", obj |-> ObjOf({"type"}, Some("ping"), None, None, None)]} \cup
    {[json |-> "object", obj |-> ObjOf(keys, None, Some(to_user_id), None, Some("hi"))] :
        keys \in SUBSET {"to_user_id", "content"}, to_user_id \in WsUsers}
VideoTexts ==
    BadTexts \cup
    {[json |-> "object", obj |-> ObjOf({"type"}, Some(type), None, None, None)] :
        type \in {"hang-up", "call-declined"}} \cup
    {[json |-> "object", obj |-> ObjOf(keys \cup {"type"}, Some("offer"), Some(to_user_id), Some("sdp"), None)] :
        keys \in SUBSET {"to_user_id", "data"}, to_user_id \in WsUsers}

\* what a client receives: the JSON object of the text, and as ghost fields the
\* socket whose handler sent it, the client text that handler passed on and the
\* number of that text among the texts the server received
Sent(obj, s, text, no) == [json |-> obj, by |-> s, text |-> text, no |-> no]
\* lines 52, 69, 72, 75, 116, 139
Pong == [type |-> Some("pong")]
ChatError(error) == [error |-> Some(error)]
VideoError(message) == [type |-> Some("error"), message |-> Some(message)]
\* lines 57-61
outgoing_message(user_id, to_user_id, content) ==
    [from_user_id |-> Some(user_id), content |-> content, type |-> Some("chat_message")]
\* lines 124-128
payload_to_send(signal_type, user_id, message_data) ==
    [type |-> signal_type, from_user_id |-> Some(user_id), data |-> get(message_data, "data")]
\* lines 103, 146, 152, 166
Notification(type, user_id) == [type |-> Some(type), user_id |-> Some(user_id)]
FromNotification(type, user_id) == [type |-> Some(type), from_user_id |-> Some(user_id)]

\* the iterator of a broadcast: the dict position it is at, the size of the dict
\* when it was made, whether its dict is no longer video_rooms[room_id], and the
\* arguments of the broadcast
NoIter == [pos |-> 0, used |-> 0, stale |-> FALSE, user_id |-> "", message |-> Sent(NoObject, 0, NoText, 0)]
\* a connection: the path parameters, the statement its handler is at
\* ("receive", or inside the broadcast of "join", "signal" or "leave"), whether
\* the client side is open, what the client has received, and as ghost fields
\* the sockets registered in the room when it joined and when it left
NoSocket ==
    [kind |-> "none", user_id |-> "", room_id |-> "", pc |-> "none", open |-> FALSE,
     received |-> {}, texts |-> 0, it |-> NoIter, raised |-> FALSE,
     others |-> {}, remaining |-> {}]
BroadcastPcs == {"join", "signal", "leave"}

\* lines 14, 18
WsInit ==
    /\ active_chat_connections = EmptyDict
    /\ video_rooms = EmptyDict
    /\ sockets = [s \in Socks |-> NoSocket]

\* The ids of the path are interchangeable, so a connection takes an id that an
\* earlier connection took or the first id that none took.
UserOrder == <<"u1", "u2", "u3">>
RoomOrder == <<"r1", "r2">>
Connected == {s \in Socks : sockets[s].pc # "none"}
NextIds(order, used) ==
    {order[i] : i \in {k \in 1..Len(order) : \A j \in 1..(k - 1) : order[j] \in used}}
NextUsers == NextIds(UserOrder, {sockets[s].user_id : s \in Connected})
NextRooms == NextIds(RoomOrder, {sockets[s].room_id : s \in Connected})

\* the next connection the server accepts
Accepting(s) ==
    /\ sockets[s].pc = "none"
    /\ \A o \in Socks : o < s => sockets[o].pc # "none"

\* the texts received from the clients so far
RECURSIVE SumTexts(_)
SumTexts(S) ==
    IF S = {} THEN 0
    ELSE LET s == CHOOSE x \in S : TRUE IN sockets[s].texts + SumTexts(S \ {s})
TextsSent == SumTexts(Socks)

\* send_text(message) on socket ws: the client receives it if it is open
send_text(socks, ws, message) ==
    IF socks[ws].open THEN [socks EXCEPT ![ws].received = @ \cup {message}] ELSE socks

\* lines 36-39
ConnectChat(s, user_id) ==
    /\ Accepting(s)
    /\ sockets' = [sockets EXCEPT ![s] =
                      [NoSocket EXCEPT !.kind = "chat", !.user_id = user_id,
                                       !.pc = "receive", !.open = TRUE]]
    /\ active_chat_connections' = SetKey(active_chat_connections, user_id, s)
    /\ UNCHANGED <<video_rooms, uvi>>
    /\ UNCHANGED recvars
    /\ UNCHANGED appvars

\* lines 43-75: one text received and handled; raises says whether send_text on
\* a socket whose client has gone raises or drops the text
ReceiveChat(s, text, raises) ==
    /\ sockets[s].kind = "chat" /\ sockets[s].pc = "receive"
    /\ sockets[s].open /\ TextsSent < MaxTexts
    /\ LET user_id == sockets[s].user_id
           socks == [sockets EXCEPT ![s].texts = @ + 1]
           reply(obj) == send_text(socks, s, Sent(obj, s, NoText, 0))
           message_data == text.obj
           to_user_id == get(message_data, "to_user_id")
           content == get(message_data, "content")
           message_type == IF "type" \in DOMAIN message_data THEN message_data["type"]
                           ELSE Some("chat_message")
       IN sockets' =
            IF text.json = "invalid" THEN reply(ChatError("Invalid JSON format."))
            ELSE IF text.json # "object" THEN reply(ChatError("Error processing your message."))
            ELSE IF message_type = Some("ping") THEN reply(Pong)
            ELSE IF NonEmpty(to_user_id) /\ NonEmpty(content)
            THEN IF Val(to_user_id) \in DOMAIN active_chat_connections
                 THEN LET recipient_socket == active_chat_connections[Val(to_user_id)]
                      IN IF socks[recipient_socket].open \/ ~raises
                         THEN send_text(socks, recipient_socket,
                                        Sent(outgoing_message(user_id, to_user_id, content), s, text, TextsSent + 1))
                         ELSE reply(ChatError("Error processing your message."))
                 ELSE socks
            ELSE reply(ChatError("Invalid chat message format."))
    /\ UNCHANGED <<active_chat_connections, video_rooms, uvi>>
    /\ UNCHANGED recvars
    /\ UNCHANGED appvars

\* the client closes the connection
ClientClose(s) ==
    /\ sockets[s].pc \notin {"none", "ended"}
    /\ sockets[s].open
    /\ sockets' = [sockets EXCEPT ![s].open = FALSE]
    /\ UNCHANGED <<active_chat_connections, video_rooms, uvi>>
    /\ UNCHANGED recvars
    /\ UNCHANGED appvars

\* lines 76-81: receive_text raises WebSocketDisconnect
DisconnectChat(s) ==
    /\ sockets[s].kind = "chat" /\ sockets[s].pc = "receive"
    /\ ~sockets[s].open
    /\ active_chat_connections' =
          IF sockets[s].user_id \in DOMAIN active_chat_connections
          THEN DelKey(active_chat_connections, sockets[s].user_id)
          ELSE active_chat_connections
    /\ sockets' = [sockets EXCEPT ![s].pc = "ended"]
    /\ UNCHANGED <<video_rooms, uvi>>
    /\ UNCHANGED recvars
    /\ UNCHANGED appvars

\* a room dict: its entries in insertion order, a deleted one left as a hole
Hole == [user_id |-> "", ws |-> 0]
Live(room) == {i \in 1..Len(room) : room[i].ws # 0}
\* len(room)
Used(room) == Cardinality(Live(room))
\* room.keys()
Members(room) == {room[i].user_id : i \in Live(room)}
\* room[user_id]
Lookup(room, user_id) == room[CHOOSE i \in Live(room) : room[i].user_id = user_id].ws
\* the sockets that are values of the room
Registered(room) == {room[i].ws : i \in Live(room)}
\* room[user_id] = ws
SetItem(room, user_id, ws) ==
    IF user_id \in Members(room)
    THEN [i \in 1..Len(room) |-> IF room[i].user_id = user_id
                                 THEN [user_id |-> user_id, ws |-> ws] ELSE room[i]]
    ELSE Append(room, [user_id |-> user_id, ws |-> ws])
\* del room[user_id]
DelItem(room, user_id) ==
    [i \in 1..Len(room) |-> IF room[i].user_id = user_id THEN Hole ELSE room[i]]
\* the next entry after position pos that the loop of lines 24-25 sends to, or 0
NextPos(room, pos, user_id) ==
    LET rest == {i \in Live(room) : i > pos /\ room[i].user_id # user_id}
    IN IF rest = {} THEN 0 ELSE CHOOSE i \in rest : \A j \in rest : i <= j

\* The operators below take and return the pair W of sockets and video_rooms.
\* the handler of s is over
End(W, s, raised) ==
    [W EXCEPT !.sockets[s].pc = "ended", !.sockets[s].open = FALSE,
              !.sockets[s].raised = raised, !.sockets[s].it = NoIter]
\* line 170; the broadcasts that iterate over the deleted dict keep it
DeleteRoom(W, room_id) ==
    [sockets |-> [s \in Socks |->
                    IF W.sockets[s].pc \in BroadcastPcs /\ W.sockets[s].room_id = room_id
                    THEN [W.sockets[s] EXCEPT !.it.stale = TRUE] ELSE W.sockets[s]],
     video_rooms |-> DelKey(W.video_rooms, room_id)]
\* what follows the broadcast of the phase: the receive loop, or lines 169-171
AfterBroadcast(W, s, phase) ==
    IF phase = "leave"
    THEN LET room_id == W.sockets[s].room_id
         IN End(IF Used(W.video_rooms[room_id]) = 0 THEN DeleteRoom(W, room_id) ELSE W,
                s, W.sockets[s].raised)
    ELSE [W EXCEPT !.sockets[s].pc = "receive", !.sockets[s].it = NoIter]
\* lines 24-27: the loop up to its next send_text
StepBroadcast(W, s, it, phase) ==
    LET room == W.video_rooms[W.sockets[s].room_id]
        i == NextPos(room, it.pos, it.user_id)
    IN IF i = 0 THEN AfterBroadcast(W, s, phase)
       ELSE [sockets |-> [send_text(W.sockets, room[i].ws, it.message)
                            EXCEPT ![s].pc = phase, ![s].it = [it EXCEPT !.pos = i]],
             video_rooms |-> W.video_rooms]
\* lines 22-27: the call, up to its first send_text
broadcast_to_video_room(W, s, user_id, message, phase) ==
    LET room_id == W.sockets[s].room_id
    IN IF room_id \in DOMAIN W.video_rooms
       THEN StepBroadcast(W, s, [pos |-> 0, used |-> Used(W.video_rooms[room_id]),
                                 stale |-> FALSE, user_id |-> user_id,
                                 message |-> message], phase)
       ELSE AfterBroadcast(W, s, phase)
\* lines 160-167: the finally block up to the first send_text of its broadcast
Leave(W, s, raised) ==
    LET room_id == W.sockets[s].room_id
        user_id == W.sockets[s].user_id
    IN IF room_id \in DOMAIN W.video_rooms /\ user_id \in Members(W.video_rooms[room_id])
       THEN LET room == DelItem(W.video_rooms[room_id], user_id)
                W1 == [W EXCEPT !.video_rooms[room_id] = room,
                                !.sockets[s].raised = raised,
                                !.sockets[s].remaining = Registered(room)]
            IN broadcast_to_video_room(W1, s, "system",
                   Sent(Notification("user-left", user_id), s, NoText, 0), "leave")
       ELSE End(W, s, raised)
\* "dictionary changed size during iteration" raised by the loop of line 24:
\* line 104 is outside the try, lines 142-153 are inside it, line 167 is in
\* the finally block
RuntimeError(W, s, phase) ==
    IF phase = "signal" THEN Leave(W, s, TRUE) ELSE End(W, s, TRUE)
\* line 24: the loop goes on after a send_text
ContinueBroadcast(W, s) ==
    LET it == W.sockets[s].it
        phase == W.sockets[s].pc
    IN IF it.stale \/ Used(W.video_rooms[W.sockets[s].room_id]) # it.used
       THEN RuntimeError(W, s, phase)
       ELSE StepBroadcast(W, s, it, phase)

\* the pair W becomes the state
Becomes(W) ==
    /\ sockets' = W.sockets
    /\ video_rooms' = W.video_rooms
    /\ UNCHANGED <<active_chat_connections, uvi>>
    /\ UNCHANGED recvars
    /\ UNCHANGED appvars
Now == [sockets |-> sockets, video_rooms |-> video_rooms]

\* lines 85-104, up to the first send_text of the join broadcast
ConnectVideo(s, room_id, user_id) ==
    /\ Accepting(s)
    /\ LET rooms == IF room_id \in DOMAIN video_rooms THEN video_rooms
                    ELSE SetKey(video_rooms, room_id, <<>>)
           room == SetItem(rooms[room_id], user_id, s)
           W == [sockets |-> [sockets EXCEPT ![s] =
                                [NoSocket EXCEPT !.kind = "video", !.user_id = user_id,
                                                 !.room_id = room_id, !.pc = "receive",
                                                 !.open = TRUE,
                                                 !.others = Registered(room) \ {s}]],
                 video_rooms |-> [rooms EXCEPT ![room_id] = room]]
       IN Becomes(broadcast_to_video_room(W, s, user_id,
                      Sent(Notification("user-joined", user_id), s, NoText, 0), "join"))

\* lines 129-135: the socket a signal for target_user_id is relayed to
every_member(room, target_user_id) == Registered(room)
recipient_ws(room, target_user_id) == {Lookup(room, target_user_id)}

\* lines 108-153: one text received and handled up to the next await
ReceiveVideo(s, text) ==
    /\ sockets[s].kind = "video" /\ sockets[s].pc = "receive"
    /\ sockets[s].open /\ TextsSent < MaxVideoTexts
    /\ LET user_id == sockets[s].user_id
           room_id == sockets[s].room_id
           W == [Now EXCEPT !.sockets[s].texts = @ + 1]
           reply(obj) == [W EXCEPT !.sockets = send_text(@, s, Sent(obj, s, NoText, 0))]
           message_data == text.obj
           signal_type == get(message_data, "type")
           target_user_id == get(message_data, "to_user_id")
           payload == Sent(payload_to_send(signal_type, user_id, message_data), s, text, TextsSent + 1)
       IN Becomes(
            IF text.json = "invalid" THEN reply(VideoError("Invalid JSON format."))
            ELSE IF text.json # "object" THEN Leave(W, s, TRUE)
            ELSE IF signal_type # None /\ Val(signal_type) \in Signals
            THEN IF NonEmpty(target_user_id)
                 THEN IF room_id \notin DOMAIN video_rooms THEN Leave(W, s, TRUE)
                      ELSE IF Val(target_user_id) \in Members(video_rooms[room_id])
                      THEN [W EXCEPT !.sockets =
                              LET S == recipient_ws(video_rooms[room_id], Val(target_user_id))
                              IN [w \in Socks |->
                                    IF w \in S THEN send_text(W.sockets, w, payload)[w]
                                    ELSE W.sockets[w]]]
                      ELSE reply(VideoError("User not found in room."))
                 ELSE broadcast_to_video_room(W, s, user_id, payload, "signal")
            ELSE IF signal_type = Some("hang-up")
            THEN broadcast_to_video_room(W, s, user_id,
                     Sent(FromNotification("call-ended", user_id), s, text, TextsSent + 1), "signal")
            ELSE IF signal_type = Some("call-declined")
            THEN broadcast_to_video_room(W, s, user_id,
                     Sent(FromNotification("call-declined", user_id), s, text, TextsSent + 1), "signal")
            ELSE W)

\* line 24: the broadcast of s goes on after its send_text
BroadcastStep(s) ==
    /\ sockets[s].pc \in BroadcastPcs
    /\ Becomes(ContinueBroadcast(Now, s))

\* lines 158-171: receive_text raises WebSocketDisconnect
DisconnectVideo(s) ==
    /\ sockets[s].kind = "video" /\ sockets[s].pc = "receive"
    /\ ~sockets[s].open
    /\ Becomes(Leave(Now, s, FALSE))

\* the state outside the recommendation engine when nothing has happened
(***************************************************************************)
(* _tokenize_text called on a text, and called again on the space-joined   *)
(* tokens it returned.                                                     *)
(***************************************************************************)
\* the longest text passed
MaxTextLen == 6
\* the characters of the texts passed
TextChars == {"a", "A", "#", "@", " "}
\* the texts passed: every string over TextChars up to the longest
Texts == UNION {[1..n -> TextChars] : n \in 0..MaxTextLen}
RECURSIVE JoinTokens(_)
\* ' '.join(tokens)
JoinTokens(tokens) ==
    IF tokens = <<>> THEN <<>>
    ELSE IF Len(tokens) = 1 THEN tokens[1]
    ELSE tokens[1] \o <<" ">> \o JoinTokens(Tail(tokens))
NoTok == [text |-> None, tokens |-> None, again |-> None]
TokInit == tok = NoTok
\* tokens = _tokenize_text(text)
Tokenize(text) ==
    /\ tok = NoTok
    /\ tok' = [text |-> Some(text), tokens |-> Some(_tokenize_text(text)), again |-> None]
    /\ UNCHANGED <<db, hs, uvi>>
    /\ UNCHANGED recvars
    /\ UNCHANGED wsvars
\* _tokenize_text(' '.join(tokens))
TokenizeAgain ==
    /\ tok.tokens # None /\ tok.again = None
    /\ tok' = [tok EXCEPT !.again = Some(_tokenize_text(JoinTokens(Val(tok.tokens))))]
    /\ UNCHANGED <<db, hs, uvi>>
    /\ UNCHANGED recvars
    /\ UNCHANGED wsvars

(***************************************************************************)
(* The handlers that write the tables: the post-like, comment and          *)
(* engagement handlers and the interactions endpoint write the             *)
(* UserVideoInteraction row of one (user, video) pair; the keyword         *)
(* activity handler writes the interest profile of one user; the           *)
(* track-impression endpoint writes the AdImpression rows of one day and   *)
(* the counter of the ad.  Each handler runs statement by statement, every *)
(* query being one step.                                                   *)
(***************************************************************************)
\* the handler threads of the server
Handlers == {1, 2}
\* the keywords of the activity records
ActivityKeywords == {"cat", "dog"}
\* the interaction_score of an activity record, in 1/10: view, like, comment
ActivityScores == {5, 15, 20}
\* the largest number of UserActivityKeyword records created
MaxEvents == 3

\* no UserVideoInteraction row of the pair, no activity, no impression
NoRow == [n |-> 0, liked |-> None, commented |-> FALSE]
DbInit ==
    db = [uvi |-> NoRow,
          logged |-> [k \in ActivityKeywords |-> 0],
          events |-> 0,
          keywords_summary |-> [k \in ActivityKeywords |-> 0],
          ad_impressions |-> [p \in AdIds \X Users |-> 0],
          ad |-> [a \in AdIds |-> 0]]
IdleH == [op |-> "none", pc |-> "idle", arg |-> None, local |-> None,
          created |-> FALSE, failed |-> FALSE]
HsInit == hs = [h \in Handlers |-> IdleH]
\* the handler h has returned: the thread serves the next request
HandlerReturn(h) ==
    /\ hs[h].pc = "done"
    /\ hs' = [hs EXCEPT ![h] = IdleH]
    /\ UNCHANGED <<db, tok, uvi>>
    /\ UNCHANGED recvars
    /\ UNCHANGED wsvars

\* an INSERT that finds rows already there
insert_unchecked(n) == TRUE
\* unique_together: an INSERT succeeds only when no row of the key exists
unique_together(n) == n = 0

\* the operations on the pair: handle_post_like_save, handle_post_like_delete,
\* handle_new_comment, RecordEngagementView.post, perform_create
UviOps == {"like", "unlike", "comment", "engage", "post"}
\* the values of liked a POST can carry
PostedLiked == {Some(TRUE), Some(FALSE)}
\* the fields of the row as an instance holds them
FieldsOf(row) == [liked |-> row.liked, commented |-> row.commented]
\* the values a new row gets from the defaults of the operation op
Defaults(op, arg) ==
    [liked |-> IF op = "like" THEN Some(TRUE) ELSE IF op = "post" THEN arg ELSE None,
     commented |-> FALSE]
\* the fields the operation op sets before it saves the instance it holds
Assigned(op, arg, fields) ==
    CASE op = "like" -> [fields EXCEPT !.liked = Some(TRUE)]
      [] op = "post" -> [fields EXCEPT !.liked = arg]
      [] op = "comment" -> [fields EXCEPT !.commented = TRUE]
      [] OTHER -> fields

\* a request or a signal reaches its handler
StartUvi(h, op, arg) ==
    /\ hs[h].pc = "idle"
    /\ hs' = [hs EXCEPT ![h] = [IdleH EXCEPT !.op = op, !.arg = arg,
                                   !.pc = IF op = "unlike" THEN "u_unlike" ELSE "u_get"]]
    /\ UNCHANGED <<db, tok, uvi>>
    /\ UNCHANGED recvars
    /\ UNCHANGED wsvars
\* api/signals.py line 112: filter(user, video).update(liked=None)
Unlike(h) ==
    /\ hs[h].pc = "u_unlike"
    /\ db' = IF db.uvi.n > 0 THEN [db EXCEPT !.uvi.liked = None] ELSE db
    /\ hs' = [hs EXCEPT ![h].pc = "done"]
    /\ UNCHANGED <<tok, uvi>>
    /\ UNCHANGED recvars
    /\ UNCHANGED wsvars
\* the SELECT of get_or_create / update_or_create
GetRow(h) ==
    /\ hs[h].pc = "u_get"
    /\ hs' = [hs EXCEPT ![h].pc = IF db.uvi.n > 0 THEN "u_save" ELSE "u_create",
                        ![h].local = IF db.uvi.n > 0 THEN Some(FieldsOf(db.uvi)) ELSE None]
    /\ UNCHANGED <<db, tok, uvi>>
    /\ UNCHANGED recvars
    /\ UNCHANGED wsvars
\* where each operation goes once it holds the row it created
AfterCreate(op) ==
    CASE op = "like" -> "done"
      [] op = "post" -> "u_serializer"
      [] OTHER -> "u_save"
\* the INSERT of get_or_create / update_or_create: on IntegrityError the row is
\* read again
CreateRow(h) ==
    /\ hs[h].pc = "u_create"
    /\ IF unique_together(db.uvi.n)
       THEN LET f == Defaults(hs[h].op, hs[h].arg)
            IN /\ db' = [db EXCEPT !.uvi = [n |-> @.n + 1, liked |-> f.liked,
                                             commented |-> f.commented]]
               /\ hs' = [hs EXCEPT ![h].pc = AfterCreate(hs[h].op),
                                   ![h].created = TRUE, ![h].local = Some(f)]
       ELSE /\ hs' = [hs EXCEPT ![h].pc = "u_get"]
            /\ UNCHANGED db
    /\ UNCHANGED <<tok, uvi>>
    /\ UNCHANGED recvars
    /\ UNCHANGED wsvars
\* the fields the save of the operation op writes: every field for
\* interaction.save() of handle_new_comment, the named ones otherwise
Written(op) ==
    CASE op = "comment" -> {"liked", "commented"}
      [] op = "engage" -> {}
      [] OTHER -> {"liked"}
\* the UPDATE that follows: the instance is saved with the fields assigned
SaveRow(h) ==
    /\ hs[h].pc = "u_save"
    /\ LET f == Assigned(hs[h].op, hs[h].arg, Val(hs[h].local))
           w == Written(hs[h].op)
       IN db' = [db EXCEPT !.uvi.liked = IF "liked" \in w THEN f.liked ELSE @,
                           !.uvi.commented = IF "commented" \in w THEN f.commented ELSE @]
    /\ hs' = [hs EXCEPT ![h].pc = IF hs[h].op = "post" THEN "u_serializer" ELSE "done"]
    /\ UNCHANGED <<tok, uvi>>
    /\ UNCHANGED recvars
    /\ UNCHANGED wsvars
\* recommender/views.py line 198: serializer.save(user=request.user), which
\* calls UserVideoInteraction.objects.create(); IntegrityError leaves the
\* view when a row of the pair exists
SerializerSave(h) ==
    /\ hs[h].pc = "u_serializer"
    /\ IF unique_together(db.uvi.n)
       THEN /\ db' = [db EXCEPT !.uvi = [n |-> @.n + 1, liked |-> hs[h].arg,
                                          commented |-> FALSE]]
            /\ hs' = [hs EXCEPT ![h].pc = "done"]
       ELSE /\ hs' = [hs EXCEPT ![h].pc = "done", ![h].failed = TRUE]
            /\ UNCHANGED db
    /\ UNCHANGED <<tok, uvi>>
    /\ UNCHANGED recvars
    /\ UNCHANGED wsvars

\* log_keywords_for_post_interaction: UserActivityKeyword.objects.create(),
\* whose post_save signal runs update_interest_profile_on_keyword_activity
CreateActivity(h, keyword, score) ==
    /\ hs[h].pc = "idle"
    /\ db.events < MaxEvents
    /\ db' = [db EXCEPT !.logged[keyword] = @ + score, !.events = @ + 1]
    /\ hs' = [hs EXCEPT ![h] = [IdleH EXCEPT !.op = "activity", !.pc = "p_read",
                                   !.arg = Some(<<keyword, score>>)]]
    /\ UNCHANGED <<tok, uvi>>
    /\ UNCHANGED recvars
    /\ UNCHANGED wsvars
\* an existing UserActivityKeyword record is saved again: created is False
SaveActivityAgain(h) ==
    /\ hs[h].pc = "idle"
    /\ db.events > 0
    /\ hs' = [hs EXCEPT ![h] = [IdleH EXCEPT !.op = "resave", !.pc = "done"]]
    /\ UNCHANGED <<db, tok, uvi>>
    /\ UNCHANGED recvars
    /\ UNCHANGED wsvars
\* recommender/signals.py line 42: the profile is read
ReadProfile(h) ==
    /\ hs[h].pc = "p_read"
    /\ hs' = [hs EXCEPT ![h].pc = "p_save", ![h].local = Some(db.keywords_summary)]
    /\ UNCHANGED <<db, tok, uvi>>
    /\ UNCHANGED recvars
    /\ UNCHANGED wsvars
\* lines 47-61: the score is added in the copy read and the profile is saved
SaveProfile(h) ==
    /\ hs[h].pc = "p_save"
    /\ LET keyword == Val(hs[h].arg)[1]
           score == Val(hs[h].arg)[2]
           current_score == Val(hs[h].local)[keyword]
       IN db' = [db EXCEPT !.keywords_summary =
                    [Val(hs[h].local) EXCEPT ![keyword] = current_score + score]]
    /\ hs' = [hs EXCEPT ![h].pc = "done"]
    /\ UNCHANGED <<tok, uvi>>
    /\ UNCHANGED recvars
    /\ UNCHANGED wsvars

\* ads/views.py line 326: the ad is read
TrackStart(h, ad_id, user) ==
    /\ hs[h].pc = "idle"
    /\ hs' = [hs EXCEPT ![h] = [IdleH EXCEPT !.op = "track", !.pc = "a_get",
                                   !.arg = Some(<<ad_id, user>>),
                                   !.local = Some(db.ad[ad_id])]]
    /\ UNCHANGED <<db, tok, uvi>>
    /\ UNCHANGED recvars
    /\ UNCHANGED wsvars
\* lines 329-334: the SELECT of get_or_create
TrackGet(h) ==
    /\ hs[h].pc = "a_get"
    /\ hs' = [hs EXCEPT ![h].pc = IF db.ad_impressions[Val(hs[h].arg)] > 0
                                   THEN "done" ELSE "a_create"]
    /\ UNCHANGED <<db, tok, uvi>>
    /\ UNCHANGED recvars
    /\ UNCHANGED wsvars
\* lines 329-334: the INSERT of get_or_create; on IntegrityError the row is
\* read and created is False
TrackCreate(h) ==
    /\ hs[h].pc = "a_create"
    /\ IF unique_together(db.ad_impressions[Val(hs[h].arg)])
       THEN /\ db' = [db EXCEPT !.ad_impressions[Val(hs[h].arg)] = @ + 1]
            /\ hs' = [hs EXCEPT ![h].pc = "a_count", ![h].created = TRUE]
       ELSE /\ hs' = [hs EXCEPT ![h].pc = "done"]
            /\ UNCHANGED db
    /\ UNCHANGED <<tok, uvi>>
    /\ UNCHANGED recvars
    /\ UNCHANGED wsvars
\* lines 336-338: ad.impressions += 1 on the ad read at line 326, then save
TrackCount(h) ==
    /\ hs[h].pc = "a_count"
    /\ db' = [db EXCEPT !.ad[Val(hs[h].arg)[1]] = Val(hs[h].local) + 1]
    /\ hs' = [hs EXCEPT ![h].pc = "done"]
    /\ UNCHANGED <<tok, uvi>>
    /\ UNCHANGED recvars
    /\ UNCHANGED wsvars

AppInit == TokInit /\ DbInit /\ HsInit
OutsideInit == RowInit /\ WsInit /\ AppInit

(***************************************************************************)
(* State of a thread.                                                      *)
(***************************************************************************)
NoCache == [k \in Keys |-> None]
NoWriter == [k \in Keys |-> 0]
NoResult == [raised |-> FALSE, list |-> <<>>, cf |-> {}, fb |-> {}, now |-> 0,
             ads |-> <<>>, draws |-> <<>>]
\* the outcome of an operation that raised
Raised == [NoResult EXCEPT !.raised = TRUE]

\* the locals of a thread that runs nothing
IdleLoc ==
    [kind |-> "none",        \* the operation: "request" or "build"
     user |-> 0,             \* user_id
     limit |-> 0,            \* num_recommendations
     force |-> FALSE,        \* force_rebuild of the build in progress
     cf_cache_is_valid |-> FALSE,
     items |-> <<>>,         \* recommended_items after the post loops
     snap |-> NoCache,       \* the cache values read into locals (lines 262-271)
     snapBy |-> NoWriter,    \* for each value read, the thread whose build wrote it
     pend |-> <<>>,          \* assignments of step 1 still to be made
     fetched |-> {},         \* tables queried by the build of this operation
     built |-> FALSE,        \* the request called the build
     afterBuild |-> FALSE,   \* the operation started right after a completed non-forced build
     c0 |-> NoCache,         \* the cache when the build, or the request for 0 items, started
     m0 |-> <<>>,            \* the impression rows when the request started
     builds |-> 0,           \* calls of the build that the operation has made
     failed |-> {},          \* steps of its build that raised: "cf", "content"
     ret |-> NoResult]       \* what the operation returned

\* the store as the build reads it
InitInteractions(vs) ==
    {[p \in S \cap (Users \X vs) |-> 3] :
        S \in {{}, {<<1, 1>>, <<2, 2>>}, {<<1, 1>>, <<2, 1>>, <<2, 2>>}}}

Init ==
    /\ cache = NoCache
    /\ writer = NoWriter
    /\ videos \in {{}, VideoIds}
    /\ posts \in {{}, 1..MaxPosts}
    /\ follows \in {{}, {<<2, 1>>}}
    /\ interactions \in InitInteractions(videos)
    /\ impressions = [p \in AdIds \X Users |-> 0]
    /\ changes = 0
    /\ lastBuild = FALSE
    /\ pc = [t \in Threads |-> "idle"]
    /\ loc = [t \in Threads |-> IdleLoc]
    /\ OutsideInit

store == <<interactions, follows, videos, posts, impressions, changes>>

(***************************************************************************)
(* Writes to the store made by the other endpoints, each handled by a      *)
(* thread that runs nothing else.                                          *)
(***************************************************************************)
\* UserVideoInteraction created or updated (recommender/views.py perform_create,
\* perform_update; api/signals.py): one row per (user, video)
SaveInteraction(t, u, v, score) ==
    /\ pc[t] = "idle"
    /\ changes < MaxDataChanges
    /\ v \in videos
    /\ interactions' = [p \in DOMAIN interactions \cup {<<u, v>>} |->
                           IF p = <<u, v>> THEN score ELSE interactions[p]]
    /\ interactions' # interactions
    /\ changes' = changes + 1
    /\ lastBuild' = FALSE
    /\ UNCHANGED <<cache, writer, follows, videos, posts, impressions, pc, loc>>
    /\ UNCHANGED outside

\* DELETE /api/recommender/interactions/{id}/
DeleteInteraction(t, u, v) ==
    /\ pc[t] = "idle"
    /\ changes < MaxDataChanges
    /\ <<u, v>> \in DOMAIN interactions
    /\ interactions' = [p \in DOMAIN interactions \ {<<u, v>>} |-> interactions[p]]
    /\ changes' = changes + 1
    /\ lastBuild' = FALSE
    /\ UNCHANGED <<cache, writer, follows, videos, posts, impressions, pc, loc>>
    /\ UNCHANGED outside

\* TrackAdImpressionAPIView.post: get_or_create of today's row
TrackAdImpression(t, a, u) ==
    /\ pc[t] = "idle"
    /\ changes < MaxDataChanges
    /\ impressions[<<a, u>>] = 0
    /\ impressions' = [impressions EXCEPT ![<<a, u>>] = 1]
    /\ changes' = changes + 1
    /\ lastBuild' = FALSE
    /\ UNCHANGED <<cache, writer, interactions, follows, videos, posts, pc, loc>>
    /\ UNCHANGED outside

(***************************************************************************)
(* build_interaction_data_and_matrices(force_rebuild), statement by        *)
(* statement.                                                              *)
(***************************************************************************)
\* where a thread goes when its build returns
AfterBuild(t) == IF loc[t].kind = "request" THEN "r_read_df" ELSE "done"

\* a direct call build_interaction_data_and_matrices(force_rebuild)
StartBuild(t, force_rebuild) ==
    /\ pc[t] = "idle"
    /\ pc' = [pc EXCEPT ![t] = "b_start"]
    /\ loc' = [loc EXCEPT ![t] = [IdleLoc EXCEPT !.kind = "build", !.force = force_rebuild,
                                     !.afterBuild = lastBuild, !.c0 = cache]]
    /\ lastBuild' = FALSE
    /\ UNCHANGED <<cache, writer, interactions, follows, videos, posts, impressions, changes>>
    /\ UNCHANGED outside

\* prime_recommender_cache_on_startup (lines 504-513)
prime_recommender_cache_on_startup(t) ==
    /\ pc[t] = "idle"
    /\ pc' = [pc EXCEPT ![t] = "b_start"]
    /\ loc' = [loc EXCEPT ![t] = [IdleLoc EXCEPT !.kind = "prime", !.force = TRUE,
                                     !.c0 = cache]]
    /\ lastBuild' = FALSE
    /\ UNCHANGED <<cache, writer, interactions, follows, videos, posts, impressions, changes>>
    /\ UNCHANGED outside

\* lines 71-77
cf_cache_is_valid(c, force_rebuild) == ~force_rebuild /\ \A k \in CFKeys : c[k] # None
\* lines 79-81
content_cache_is_valid(c, force_rebuild) ==
    ~force_rebuild /\ c["video_features_map"] # None /\ c["all_post_keywords"] # None
\* lines 83-84
follow_cache_is_valid(c, force_rebuild) == ~force_rebuild /\ c["user_follows_map"] # None
\* lines 86-94: the build returns at once
SkipsBuild(c, force_rebuild) ==
    /\ cf_cache_is_valid(c, force_rebuild)
    /\ content_cache_is_valid(c, force_rebuild)
    /\ follow_cache_is_valid(c, force_rebuild)
    /\ ~(/\ c["user_item_matrix_df"] # None
         /\ IsEmptyDF(Val(c["user_item_matrix_df"]))
         /\ c["item_similarity_matrix"] = None)

\* lines 69-100: the validity checks, the early return, the full reset
BuildStart(t) ==
    /\ pc[t] = "b_start"
    /\ IF SkipsBuild(cache, loc[t].force)
       THEN /\ pc' = [pc EXCEPT ![t] = AfterBuild(t)]
            /\ loc' = [loc EXCEPT ![t].builds = @ + 1]
            /\ UNCHANGED <<cache, writer>>
       ELSE /\ pc' = [pc EXCEPT ![t] = "b_cf"]
            /\ loc' = [loc EXCEPT
                         ![t].builds = @ + 1,
                         ![t].cf_cache_is_valid = cf_cache_is_valid(cache, loc[t].force)]
            /\ cache' = IF loc[t].force THEN NoCache ELSE cache
            /\ writer' = IF loc[t].force THEN NoWriter ELSE writer
    /\ UNCHANGED <<interactions, follows, videos, posts, impressions, changes, lastBuild>>
    /\ UNCHANGED outside

\* line 103
RebuildsCF(c, force_rebuild, cf_valid) ==
    force_rebuild \/ ~cf_valid \/ c["user_item_matrix_df"] = None

\* lines 102-127: step 1 up to the assignment of user_item_matrix_df
BuildCF(t) ==
    /\ pc[t] = "b_cf"
    /\ IF RebuildsCF(cache, loc[t].force, loc[t].cf_cache_is_valid)
       THEN LET ws == CFWrites(interactions)
            IN /\ cache' = ApplyWrites(cache, <<ws[1]>>)
               /\ writer' = [writer EXCEPT ![ws[1][1]] = t]
               /\ loc' = [loc EXCEPT ![t].pend = Tail(ws),
                                     ![t].fetched = @ \cup {"interactions"}]
               /\ pc' = [pc EXCEPT ![t] = "b_cf_rest"]
       ELSE /\ pc' = [pc EXCEPT ![t] = "b_content"]
            /\ UNCHANGED <<cache, writer, loc>>
    /\ UNCHANGED <<interactions, follows, videos, posts, impressions, changes, lastBuild>>
    /\ UNCHANGED outside

\* lines 109-113, 122, 129-140: the remaining assignments of step 1
BuildCFRest(t) ==
    /\ pc[t] = "b_cf_rest"
    /\ cache' = ApplyWrites(cache, loc[t].pend)
    /\ writer' = [k \in Keys |-> IF k \in WrittenKeys(loc[t].pend) THEN t ELSE writer[k]]
    /\ loc' = [loc EXCEPT ![t].pend = <<>>]
    /\ pc' = [pc EXCEPT ![t] = "b_content"]
    /\ UNCHANGED <<interactions, follows, videos, posts, impressions, changes, lastBuild>>
    /\ UNCHANGED outside

\* lines 151-173: steps 2 and 3
BuildContent(t) ==
    /\ pc[t] = "b_content"
    /\ LET features == loc[t].force \/ cache["video_features_map"] = None
           keywords == loc[t].force \/ cache["all_post_keywords"] = None
       IN /\ cache' = [cache EXCEPT
                !["video_features_map"] =
                    IF features THEN Some(video_features_map(videos)) ELSE @,
                !["all_post_keywords"] =
                    IF keywords THEN Some(all_post_keywords(posts)) ELSE @]
          /\ writer' = [writer EXCEPT
                !["video_features_map"] = IF features THEN t ELSE @,
                !["all_post_keywords"] = IF keywords THEN t ELSE @]
          /\ loc' = [loc EXCEPT ![t].fetched =
                        @ \cup (IF features THEN {"videos"} ELSE {})
                          \cup (IF keywords THEN {"posts"} ELSE {})]
    /\ pc' = [pc EXCEPT ![t] = "b_tail"]
    /\ UNCHANGED <<interactions, follows, videos, posts, impressions, changes, lastBuild>>
    /\ UNCHANGED outside

\* the assignments pend still to be made are inside the try block of lines
\* 124-141
InTry(pend) == pend # <<>> /\ pend[1][1] = "user_id_to_idx"

\* lines 124-126, 142-149: pivot_table raises; the except block resets step 1
FailCF(t) ==
    /\ pc[t] = "b_cf"
    /\ RebuildsCF(cache, loc[t].force, loc[t].cf_cache_is_valid)
    /\ interaction_list(interactions) # {}
    /\ cache' = ApplyWrites(cache, CFReset)
    /\ writer' = [k \in Keys |-> IF k \in WrittenKeys(CFReset) THEN t ELSE writer[k]]
    /\ loc' = [loc EXCEPT ![t].fetched = @ \cup {"interactions"},
                          ![t].failed = @ \cup {"cf"}]
    /\ pc' = [pc EXCEPT ![t] = "b_content"]
    /\ UNCHANGED <<interactions, follows, videos, posts, impressions, changes, lastBuild>>
    /\ UNCHANGED outside

\* lines 129-149: an id map or cosine_similarity raises after done of the
\* remaining assignments were made; the except block resets step 1
FailCFRest(t, done) ==
    /\ pc[t] = "b_cf_rest"
    /\ InTry(loc[t].pend)
    /\ done < Len(loc[t].pend)
    /\ LET ws == SubSeq(loc[t].pend, 1, done) \o CFReset
       IN /\ cache' = ApplyWrites(cache, ws)
          /\ writer' = [k \in Keys |-> IF k \in WrittenKeys(ws) THEN t ELSE writer[k]]
    /\ loc' = [loc EXCEPT ![t].pend = <<>>, ![t].failed = @ \cup {"cf"}]
    /\ pc' = [pc EXCEPT ![t] = "b_content"]
    /\ UNCHANGED <<interactions, follows, videos, posts, impressions, changes, lastBuild>>
    /\ UNCHANGED outside

\* every caller hands on the exception of the build
always_propagates(kind) == TRUE
\* the caller of the build hands on an exception of the build: the request and
\* the direct caller do, prime_recommender_cache_on_startup (lines 510-513)
\* catches it
Propagates(kind) == kind # "prime"

\* lines 151-173: the fetch of the videos or of the posts raises, nothing
\* catches it inside the build
FailContent(t, table) ==
    /\ pc[t] = "b_content"
    /\ LET features == loc[t].force \/ cache["video_features_map"] = None
           keywords == loc[t].force \/ cache["all_post_keywords"] = None
       IN /\ table \in (IF features THEN {"videos"} ELSE {})
                         \cup (IF keywords THEN {"posts"} ELSE {})
          /\ cache' = [cache EXCEPT
                !["video_features_map"] =
                    IF features /\ table = "posts"
                    THEN Some(video_features_map(videos)) ELSE @]
          /\ writer' = [writer EXCEPT
                !["video_features_map"] = IF features /\ table = "posts" THEN t ELSE @]
          /\ loc' = [loc EXCEPT
                ![t].fetched = @ \cup (IF features /\ table = "posts" THEN {"videos"} ELSE {}),
                ![t].failed = @ \cup {"content"},
                ![t].ret = IF Propagates(loc[t].kind) THEN Raised ELSE @]
    /\ pc' = [pc EXCEPT ![t] = "done"]
    /\ UNCHANGED <<interactions, follows, videos, posts, impressions, changes, lastBuild>>
    /\ UNCHANGED outside

\* lines 186-189: every key still None gets its default
WithDefaults(c) == [k \in Keys |-> IF c[k] = None THEN default_values(k) ELSE c[k]]
\* line 192, evaluated after the defaults
RebuildsFollows(c, force_rebuild) == force_rebuild \/ c["user_follows_map"] = None

\* lines 175-203: the defaults, then step 4
BuildTail(t) ==
    /\ pc[t] = "b_tail"
    /\ LET c1 == WithDefaults(cache)
           w1 == [k \in Keys |-> IF cache[k] = None /\ c1[k] # None THEN t ELSE writer[k]]
           rebuild == RebuildsFollows(c1, loc[t].force)
       IN /\ cache' = IF rebuild
                      THEN [c1 EXCEPT !["user_follows_map"] = Some(user_follows_map(follows))]
                      ELSE c1
          /\ writer' = IF rebuild THEN [w1 EXCEPT !["user_follows_map"] = t] ELSE w1
          /\ loc' = [loc EXCEPT ![t].fetched = @ \cup (IF rebuild THEN {"follows"} ELSE {})]
    /\ pc' = [pc EXCEPT ![t] = AfterBuild(t)]
    /\ UNCHANGED <<interactions, follows, videos, posts, impressions, changes, lastBuild>>
    /\ UNCHANGED outside

(***************************************************************************)
(* get_recommendations_for_user(user_id, num_recommendations), statement   *)
(* by statement.                                                           *)
(***************************************************************************)
\* line 258
NeedsBuild(c) == c["user_item_matrix_df"] = None \/ c["item_similarity_matrix"] = None
\* a video part entered with nothing left to fill
NeedsVideosOrNone(num_video_recs_needed) == num_video_recs_needed >= 0
\* line 255
NeedsVideos(num_video_recs_needed) == num_video_recs_needed > 0

\* lines 206-260: the post loops, then the cache check that calls the build
StartRequest(t, user_id, num_recommendations) ==
    /\ pc[t] = "idle"
    /\ LET items == post_items(user_id, num_recommendations, posts)
           wanted == NeedsVideos(num_recommendations - Len(items))
           build == wanted /\ NeedsBuild(cache)
       IN /\ pc' = [pc EXCEPT ![t] = IF build THEN "b_start"
                                     ELSE IF wanted THEN "r_read_df" ELSE "r_finish"]
          /\ loc' = [loc EXCEPT ![t] =
                        [IdleLoc EXCEPT !.kind = "request", !.user = user_id,
                                        !.limit = num_recommendations, !.items = items,
                                        !.force = build, !.built = build,
                                        !.c0 = IF num_recommendations = 0 THEN cache ELSE NoCache,
                                        !.m0 = impressions]]
    /\ lastBuild' = FALSE
    /\ UNCHANGED <<cache, writer, interactions, follows, videos, posts, impressions, changes>>
    /\ UNCHANGED outside

\* line 262
ReadDf(t) ==
    /\ pc[t] = "r_read_df"
    /\ loc' = [loc EXCEPT ![t].snap["user_item_matrix_df"] = cache["user_item_matrix_df"],
                          ![t].snapBy["user_item_matrix_df"] = writer["user_item_matrix_df"]]
    /\ pc' = [pc EXCEPT ![t] = "r_read_rest"]
    /\ UNCHANGED <<cache, writer, interactions, follows, videos, posts, impressions,
                   changes, lastBuild>>
    /\ UNCHANGED outside

\* the keys lines 263-271 read
RestKeys == {"item_similarity_matrix", "video_id_to_idx", "video_idx_to_id",
             "user_id_to_idx", "video_features_map", "all_post_keywords",
             "user_follows_map"}
ReadKeys == RestKeys \cup {"user_item_matrix_df"}

\* lines 263-271; set(None) raises when all_post_keywords is None
ReadRest(t) ==
    /\ pc[t] = "r_read_rest"
    /\ loc' = [loc EXCEPT
          ![t].snap = [k \in Keys |-> IF k \in RestKeys THEN cache[k] ELSE @[k]],
          ![t].snapBy = [k \in Keys |-> IF k \in RestKeys THEN writer[k] ELSE @[k]],
          ![t].ret = IF cache["all_post_keywords"] = None THEN Raised ELSE @]
    /\ pc' = [pc EXCEPT ![t] = IF cache["all_post_keywords"] = None THEN "done"
                                ELSE "r_finish"]
    /\ UNCHANGED <<cache, writer, interactions, follows, videos, posts, impressions,
                   changes, lastBuild>>
    /\ UNCHANGED outside

\* lines 273-502: the video part, the ads, the return
Finish(t, times) ==
    /\ pc[t] = "r_finish"
    /\ LET needed == loc[t].limit - Len(loc[t].items)
           vr == IF NeedsVideos(needed)
                 THEN video_recommendations(loc[t].snap,
                          Val(loc[t].snap["all_post_keywords"]),
                          loc[t].user, needed, videos, posts)
                 ELSE [raised |-> FALSE, cf |-> <<>>, fb |-> <<>>]
           organic == loc[t].items
                        \o [i \in DOMAIN vr.cf |-> Item("video", vr.cf[i])]
                        \o [i \in DOMAIN vr.fb |-> Item("video", vr.fb[i])]
       IN IF vr.raised
          THEN loc' = [loc EXCEPT ![t].ret = Raised]
          ELSE \E now \in times :
                 \E f \in feeds(organic, candidate_ads(loc[t].user, now, impressions),
                                loc[t].limit) :
                    loc' = [loc EXCEPT ![t].ret =
                               [raised |-> FALSE, list |-> f.list, cf |-> Range(vr.cf),
                                fb |-> Range(vr.fb), now |-> now, ads |-> f.ads,
                                draws |-> f.draws]]
    /\ pc' = [pc EXCEPT ![t] = "done"]
    /\ UNCHANGED <<cache, writer, interactions, follows, videos, posts, impressions,
                   changes, lastBuild>>
    /\ UNCHANGED outside

\* the operation returns to its caller
Return(t) ==
    /\ pc[t] = "done"
    /\ pc' = [pc EXCEPT ![t] = "idle"]
    /\ loc' = [loc EXCEPT ![t] = IdleLoc]
    /\ lastBuild' = (loc[t].kind = "build" /\ ~loc[t].force)
    /\ UNCHANGED <<cache, writer, interactions, follows, videos, posts, impressions, changes>>
    /\ UNCHANGED outside

(***************************************************************************)
(* Specifications.                                                         *)
(***************************************************************************)
\* the writes to the store
StoreNext(T) ==
    \/ \E t \in T, u \in Users, v \in VideoIds, score \in ScoreVals :
          SaveInteraction(t, u, v, score)
    \/ \E t \in T, u \in Users, v \in VideoIds : DeleteInteraction(t, u, v)
    \/ \E t \in T, a \in AdIds, u \in Users : TrackAdImpression(t, a, u)

\* the direct calls of the build
CallBuild(T) == \E t \in T, force_rebuild \in BOOLEAN : StartBuild(t, force_rebuild)
\* the direct calls of the build and the call at startup
BuildNext(T) ==
    \/ CallBuild(T)
    \/ \E t \in T : prime_recommender_cache_on_startup(t)

\* the steps of a build that raise
FaultSteps(T) ==
    \/ \E t \in T : FailCF(t)
    \/ \E t \in T, done \in 0..4 : FailCFRest(t, done)
    \/ \E t \in T, table \in {"videos", "posts"} : FailContent(t, table)

\* the steps of a build
BuildSteps(T) ==
    \/ \E t \in T : BuildStart(t)
    \/ \E t \in T : BuildCF(t)
    \/ \E t \in T : BuildCFRest(t)
    \/ \E t \in T : BuildContent(t)
    \/ \E t \in T : BuildTail(t)

\* the steps of a request outside the build, and the return of an operation
RequestSteps(T, users, limits, times) ==
    \/ \E t \in T, user_id \in users, num_recommendations \in limits :
          StartRequest(t, user_id, num_recommendations)
    \/ \E t \in T : ReadDf(t)
    \/ \E t \in T : ReadRest(t)
    \/ \E t \in T : Finish(t, times)
    \/ \E t \in T : Return(t)

\* the requests, with the builds they call
RequestNext(T, users, limits, times) ==
    BuildSteps(T) \/ RequestSteps(T, users, limits, times)

\* the builds and the requests
CacheNext(T, users, limits, times) == BuildNext(T) \/ RequestNext(T, users, limits, times)

\* one thread: the operations run one after the other
Times == 1..MaxTime
Next == StoreNext(SeqThreads) \/ CacheNext(SeqThreads, UserIds, Limits, Times)
Spec == Init /\ [][Next]_vars

\* two threads over one unchanging store: the steps of two operations interleave
ConcLimits == {2}
ConcInit ==
    /\ Init
    /\ videos = VideoIds
    /\ posts = {}
    /\ follows = {<<2, 1>>}
    /\ DOMAIN interactions = {<<1, 1>>, <<2, 1>>, <<2, 2>>}
ConcUsers == {2}
ConcTimes == {1}
ConcNext == CallBuild(Threads) \/ RequestNext(Threads, ConcUsers, ConcLimits, ConcTimes)
ConcSpec == ConcInit /\ [][ConcNext]_vars

\* one thread over the records of the functional test (test_utils.py lines
\* 96-108): user u scored a and b, user o scored a and c, nothing else exists
TransferScores == {3, 5}
TransferRecords(u, o, a, b, c) == {<<u, a>>, <<u, b>>, <<o, a>>, <<o, c>>}
TransferInit ==
    /\ cache = NoCache
    /\ writer = NoWriter
    /\ videos = VideoIds
    /\ posts = {}
    /\ follows = {}
    /\ \E u, o \in Users : \E abc \in Perms(VideoIds) :
          /\ u # o
          /\ interactions \in [TransferRecords(u, o, abc[1], abc[2], abc[3]) -> TransferScores]
    /\ impressions = [p \in AdIds \X Users |-> 0]
    /\ changes = 0
    /\ lastBuild = FALSE
    /\ pc = [t \in Threads |-> "idle"]
    /\ loc = [t \in Threads |-> IdleLoc]
    /\ OutsideInit
TransferLimits == {1}
TransferNext == RequestNext(SeqThreads, Users, TransferLimits, Times)
TransferSpec == TransferInit /\ [][TransferNext]_vars

\* two threads over one unchanging store with posts, videos and interactions,
\* the cache as the build at startup leaves it: two requests side by side
PairInit ==
    /\ videos = VideoIds
    /\ posts = 1..MaxPosts
    /\ follows = {<<2, 1>>}
    /\ interactions = [p \in {<<1, 1>>, <<2, 1>>, <<2, 2>>} |-> 3]
    /\ impressions = [p \in AdIds \X Users |-> 0]
    /\ cache = [k \in Keys |->
                  IF k \in CFKeys
                  THEN WithDefaults(ApplyWrites(NoCache, CFWrites(interactions)))[k]
                  ELSE IF k = "video_features_map" THEN Some(video_features_map(videos))
                  ELSE IF k = "all_post_keywords" THEN Some(all_post_keywords(posts))
                  ELSE Some(user_follows_map(follows))]
    /\ writer = [k \in Keys |-> 1]
    /\ changes = 0
    /\ lastBuild = FALSE
    /\ pc = [t \in Threads |-> "idle"]
    /\ loc = [t \in Threads |-> IdleLoc]
    /\ OutsideInit
PairUsers == {1, 3}
PairLimits == {MaxLimit}
PairTimes == {1, 2}
PairNext == RequestSteps(Threads, PairUsers, PairLimits, PairTimes)
PairSpec == PairInit /\ [][PairNext]_vars

\* one thread over an unchanging store in which steps of the build can raise
FaultInit ==
    /\ Init
    /\ videos = VideoIds
    /\ follows = {<<2, 1>>}
FaultLimits == {2, MaxLimit}
FaultTimes == {1}
FaultNext ==
    \/ CacheNext(SeqThreads, Users, FaultLimits, FaultTimes)
    \/ FaultSteps(SeqThreads)
FaultSpec == FaultInit /\ [][FaultNext]_vars

\* one thread over an unchanging store with few posts, so that a request asks
\* for one, two or three videos and a list of posts and videos reaches the
\* length at which an ad is injected
\* records that leave user 2 two videos of the matrix to be ranked
FillInteractions == {[p \in {<<1, 1>>, <<1, 3>>, <<2, 2>>} |-> 3]}
FillInit ==
    /\ cache = NoCache
    /\ writer = NoWriter
    /\ videos = VideoIds
    /\ posts \in {{}, {1, 2}, {1, 2, 3, 4}}
    /\ follows \in {{}, {<<2, 1>>}}
    /\ interactions \in InitInteractions(videos) \cup FillInteractions
    /\ impressions = [p \in AdIds \X Users |-> 0]
    /\ changes = 0
    /\ lastBuild = FALSE
    /\ pc = [t \in Threads |-> "idle"]
    /\ loc = [t \in Threads |-> IdleLoc]
    /\ OutsideInit
FillLimits == {1, 2, 3, 4, 8}
FillTimes == {1}
FillNext == RequestNext(SeqThreads, UserIds, FillLimits, FillTimes)
FillSpec == FillInit /\ [][FillNext]_vars

\* one row written and read over and over, the engine and the websocket server
\* at rest
ScoreInit ==
    /\ Init
    /\ videos = {} /\ posts = {} /\ follows = {}
ScoreNext ==
    \/ \E f \in RowFields : WriteRow(f)
    \/ ReadScore
ScoreSpec == ScoreInit /\ [][ScoreNext]_vars

\* the chat endpoint alone: connections, texts, closes
ChatNext ==
    \/ \E s \in Socks, user_id \in NextUsers : ConnectChat(s, user_id)
    \/ \E s \in Socks, text \in ChatTexts, raises \in BOOLEAN : ReceiveChat(s, text, raises)
    \/ \E s \in Socks : ClientClose(s)
    \/ \E s \in Socks : DisconnectChat(s)
ChatSpec == ScoreInit /\ [][ChatNext]_vars

\* the video endpoint alone: connections, texts, closes, broadcasts
VideoNext ==
    \/ \E s \in Socks, room_id \in NextRooms, user_id \in NextUsers :
          ConnectVideo(s, room_id, user_id)
    \/ \E s \in Socks, text \in VideoTexts : ReceiveVideo(s, text)
    \/ \E s \in Socks : ClientClose(s)
    \/ \E s \in Socks : BroadcastStep(s)
    \/ \E s \in Socks : DisconnectVideo(s)
VideoSpec == ScoreInit /\ [][VideoNext]_vars

\* the tokenizer alone
TokNext ==
    \/ \E text \in Texts : Tokenize(text)
    \/ TokenizeAgain
TokSpec == ScoreInit /\ [][TokNext]_vars

\* the writers of the UserVideoInteraction row of one pair
UviNext ==
    \E h \in Handlers :
        \/ \E op \in UviOps \ {"post"} : StartUvi(h, op, None)
        \/ \E arg \in PostedLiked : StartUvi(h, "post", arg)
        \/ Unlike(h)
        \/ GetRow(h)
        \/ CreateRow(h)
        \/ SaveRow(h)
        \/ SerializerSave(h)
        \/ HandlerReturn(h)
UviSpec == ScoreInit /\ [][UviNext]_vars

\* the keyword activity of one user
ProfileNext ==
    \E h \in Handlers :
        \/ \E keyword \in ActivityKeywords, score \in ActivityScores :
              CreateActivity(h, keyword, score)
        \/ SaveActivityAgain(h)
        \/ ReadProfile(h)
        \/ SaveProfile(h)
        \/ HandlerReturn(h)
ProfileSpec == ScoreInit /\ [][ProfileNext]_vars

\* the track-impression requests of one day
TrackNext ==
    \E h \in Handlers :
        \/ \E ad_id \in AdIds, user \in Users : TrackStart(h, ad_id, user)
        \/ TrackGet(h)
        \/ TrackCreate(h)
        \/ TrackCount(h)
        \/ HandlerReturn(h)
TrackSpec == ScoreInit /\ [][TrackNext]_vars



(***************************************************************************)
(* Properties.                                                             *)
(***************************************************************************)
BuildPcs == {"b_start", "b_cf", "b_cf_rest", "b_content", "b_tail"}
\* thread t is in a request that has returned or raised
Returned(t) == pc[t] = "done" /\ loc[t].kind = "request"
\* thread t is in a request that has read every cache key it uses
HasRead(t) ==
    /\ loc[t].kind = "request"
    /\ NeedsVideos(loc[t].limit - Len(loc[t].items))
    /\ pc[t] \in {"r_finish", "done"}
\* thread b is inside a build
Building(b) == pc[b] \in BuildPcs
\* the CF keys a request reads
CFRead == CFKeys \cap ReadKeys

\* C1: get_recommendations_for_user never raises, for every user id, every
\* limit and every cache state reachable through builds, a concurrent rebuild
\* included: every call ends with a list.
C1_NeverRaises == \A t \in Threads : Returned(t) => ~loc[t].ret.raised

\* C2: when a request has read the cache while a build runs in another thread,
\* the CF values it read were all written by one and the same build.
C2_OneBuildRead ==
    \A t, b \in Threads :
        (t # b /\ HasRead(t) /\ Building(b))
            => \A k1, k2 \in CFRead : loc[t].snapBy[k1] = loc[t].snapBy[k2]

\* C3: while a forced rebuild is in flight, no key that was populated when the
\* rebuild started is read as None by a concurrent request.
C3_NoAbsentRead ==
    \A t, b \in Threads :
        (t # b /\ HasRead(t) /\ Building(b) /\ loc[b].kind = "build" /\ loc[b].force)
            => \A k \in ReadKeys : loc[b].c0[k] # None => loc[t].snap[k] # None

\* C4: at most one rebuild of the CF sub-state is in progress at any time: two
\* callers never both hold interactions they fetched for a build still running.
C4_SingleRebuild ==
    Cardinality({t \in Threads : Building(t) /\ "interactions" \in loc[t].fetched}) <= 1

\* C5: a non-forced build that directly follows a completed non-forced build,
\* with no change to the records in between, fetches no table and leaves every
\* cache key unchanged.
C5_Idempotent ==
    \A t \in Threads :
        (pc[t] = "done" /\ loc[t].kind = "build" /\ ~loc[t].force /\ loc[t].afterBuild)
            => loc[t].fetched = {} /\ cache = loc[t].c0

\* the value of each key derived from the current records
Derived ==
    [k \in Keys |->
        IF k \in CFKeys THEN WithDefaults(ApplyWrites(NoCache, CFWrites(interactions)))[k]
        ELSE IF k = "video_features_map" THEN Some(video_features_map(videos))
        ELSE IF k = "all_post_keywords" THEN Some(all_post_keywords(posts))
        ELSE Some(user_follows_map(follows))]
\* the sub-states of the cache
SubStates == {CFKeys, {"video_features_map"}, {"all_post_keywords"}, {"user_follows_map"}}

\* C6: after a non-forced build, each sub-state that was None before the call
\* holds the value derived from the current records, and each sub-state that
\* was populated before the call is unchanged.
C6_RebuildsAbsent ==
    \A t \in Threads :
        (pc[t] = "done" /\ loc[t].kind = "build" /\ ~loc[t].force)
            => \A S \in SubStates :
                  /\ (\A k \in S : loc[t].c0[k] = None) => \A k \in S : cache[k] = Derived[k]
                  /\ (\A k \in S : loc[t].c0[k] # None) => \A k \in S : cache[k] = loc[t].c0[k]

\* no two elements of the list l are the same (type, id) pair
NoDuplicates(l) == \A i, j \in DOMAIN l : i # j => l[i] # l[j]
\* the positions of the ads in the list l
AdPositions(l) == {i \in DOMAIN l : l[i].type = "ad"}

\* C7: the list a request returns never holds two items with the same
\* (type, id) pair, across superuser posts, other posts, CF videos, fallback
\* videos and injected ads.
C7_NoDuplicates == \A t \in Threads : Returned(t) => NoDuplicates(loc[t].ret.list)

\* a returned feed with posts, a CF video, a fallback video and an ad
C7_Witness ==
    \E t \in Threads :
        /\ Returned(t) /\ ~loc[t].ret.raised
        /\ loc[t].items # <<>>
        /\ loc[t].ret.cf # {} /\ loc[t].ret.fb # {}
        /\ AdPositions(loc[t].ret.list) # {}

\* C8: a request for 0 items returns the empty list, creates no impression
\* record and leaves every cache key as it was.
C8_LimitZero ==
    \A t \in Threads :
        (Returned(t) /\ loc[t].limit = 0)
            => /\ ~loc[t].ret.raised
               /\ loc[t].ret.list = <<>>
               /\ impressions = loc[t].m0
               /\ cache = loc[t].c0

\* a request for 0 items returned on a cold cache while posts, videos and a
\* candidate ad exist
C8_Witness ==
    \E t \in Threads :
        /\ Returned(t) /\ loc[t].limit = 0
        /\ posts # {} /\ videos # {}
        /\ \E now \in Times : candidate_ads(loc[t].user, now, impressions) # {}
        /\ loc[t].c0 = NoCache

\* the user has no interaction record
NoRecords(user_id) == \A v \in VideoIds : <<user_id, v>> \notin DOMAIN interactions

\* C9: a request of a user with no interaction record does not raise and
\* returns no video taken from the CF ranking.
C9_ColdStart ==
    \A t \in Threads :
        (Returned(t) /\ NoRecords(loc[t].user))
            => ~loc[t].ret.raised /\ loc[t].ret.cf = {}

\* the cached matrix df holds a score above 0.1 for (user_id, v)
CachedScoreAbove(df, user_id, v) ==
    <<user_id, v>> \in DOMAIN df.cell /\ df.cell[<<user_id, v>>] * 10 > 1
\* the videos of the list l
VideosOf(l) == {l[i].id : i \in {j \in DOMAIN l : l[j].type = "video"}}

\* C10: no video for which the user's cached interaction score exceeds 0.1 is
\* in the returned list, whether the videos came from the CF ranking or from
\* the fallback.
C10_NoInteracted ==
    \A t \in Threads :
        (Returned(t) /\ ~loc[t].ret.raised /\ loc[t].snap["user_item_matrix_df"] # None)
            => \A v \in VideosOf(loc[t].ret.list) :
                  ~CachedScoreAbove(Val(loc[t].snap["user_item_matrix_df"]), loc[t].user, v)

\* a request of a user with a cached score above 0.1 returned a CF video and a
\* fallback video
C10_Witness ==
    \E t \in Threads :
        /\ Returned(t) /\ ~loc[t].ret.raised
        /\ loc[t].snap["user_item_matrix_df"] # None
        /\ \E v \in VideoIds :
              CachedScoreAbove(Val(loc[t].snap["user_item_matrix_df"]), loc[t].user, v)
        /\ loc[t].ret.cf # {} /\ loc[t].ret.fb # {}


\* the records are those of the transfer scenario seen from user u: u scored a
\* and b, one other user scored a and c, all scores positive, and c is the video
\* u did not score
TransferCase(u, c) ==
    \E o \in Users \ {u} : \E a, b \in VideoIds \ {c} :
        /\ a # b
        /\ DOMAIN interactions = TransferRecords(u, o, a, b, c)
        /\ \A p \in DOMAIN interactions : interactions[p] > 0
        /\ posts = {} /\ follows = {}

\* C11: with user U having positive scores for videos A and B, another user
\* having positive scores for A and C, and no other data, a request of U for 1
\* item returns exactly one item, the video C.
C11_Transfer ==
    \A t \in Threads : \A c \in VideoIds :
        (Returned(t) /\ loc[t].limit = 1 /\ TransferCase(loc[t].user, c))
            => /\ ~loc[t].ret.raised
               /\ loc[t].ret.list = <<Item("video", c)>>

\* a request for 1 item returned in the transfer scenario, the video coming
\* from the CF ranking
C11_Witness ==
    \E t \in Threads : \E c \in VideoIds :
        /\ Returned(t) /\ loc[t].limit = 1 /\ TransferCase(loc[t].user, c)
        /\ loc[t].ret.cf = {c}


\* the ads of the list l
AdsOf(l) == {l[i].id : i \in AdPositions(l)}
\* today's impression rows of (ad, user) among the rows imp
ImpressionCount(imp, a, user_id) == Get(imp, <<a, user_id>>, 0)

\* C13: for each ad in the list a request returns, the call has created exactly
\* one impression record for (ad, requesting user, today).
C13_ImpressionPerAd ==
    \A t \in Threads :
        (Returned(t) /\ ~loc[t].ret.raised)
            => \A a \in AdsOf(loc[t].ret.list) :
                  ImpressionCount(impressions, a, loc[t].user)
                      = ImpressionCount(loc[t].m0, a, loc[t].user) + 1

\* the number of organic items of the list l between the ad at position p and
\* the ad before it, or the start of the list
GapBefore(l, p) ==
    LET before == {q \in AdPositions(l) : q < p}
        prev == IF before = {} THEN 0 ELSE CHOOSE q \in before : \A r \in before : r <= q
    IN p - prev - 1

\* C14: in every returned feed the number of organic items before the first ad,
\* and between any two consecutive ads, is between 7 and 10; a feed with no
\* organic item holds no ad.
C14_Cadence ==
    \A t \in Threads :
        (Returned(t) /\ ~loc[t].ret.raised)
            => \A p \in AdPositions(loc[t].ret.list) :
                  GapBefore(loc[t].ret.list, p) \in AdIntervalMin..AdIntervalMax

\* the time now lies in the half-open window [start, end) of ad a, a missing
\* bound placing no restriction
InHalfOpenWindow(a, now) ==
    /\ AdStart(a) # None => Val(AdStart(a)) <= now
    /\ AdEnd(a) # None => now < Val(AdEnd(a))

\* C15: a live ad is among the candidates of a request only if the current
\* time lies in the half-open window [target_start, target_end) of the ad.
C15_HalfOpenWindow ==
    \A t \in Threads :
        (Returned(t) /\ ~loc[t].ret.raised)
            => \A a \in Range(loc[t].ret.ads) : InHalfOpenWindow(a, loc[t].ret.now)

\* the similarity of ad a to the interest profile of the user: the sum of the
\* user's weights for the keywords of the ad
ad_similarity(user_id, a) ==
    LET w == keywords_summary(user_id)
    IN SumOver(w, AdKeywords(a) \cap DOMAIN w)

\* C16: in the returned list an eligible ad with positive similarity to the
\* user's interest profile is placed ahead of every eligible ad with zero
\* similarity, and a zero-similarity ad is shown only when no eligible ad has
\* positive similarity.
C16_Relevance ==
    \A t \in Threads :
        (Returned(t) /\ ~loc[t].ret.raised)
            => LET l == loc[t].ret.list
                   u == loc[t].user
               IN /\ \A i, j \in AdPositions(l) :
                        (i < j) => ~(ad_similarity(u, l[i].id) = 0
                                       /\ ad_similarity(u, l[j].id) > 0)
                  /\ \A i \in AdPositions(l) :
                        ad_similarity(u, l[i].id) = 0
                            => \A a \in Range(loc[t].ret.ads) : ad_similarity(u, a) = 0

\* C17: for a user_id that matches no user, the request does not raise and
\* returns the empty list.
C17_UnknownUser ==
    \A t \in Threads :
        (Returned(t) /\ loc[t].user \notin Users)
            => ~loc[t].ret.raised /\ loc[t].ret.list = <<>>

\* C18: for a limit >= 0 the returned list has at most limit items, injected
\* ads included; for a negative limit it is empty.
C18_AtMostLimit ==
    \A t \in Threads :
        (Returned(t) /\ ~loc[t].ret.raised)
            => IF loc[t].limit >= 0 THEN Len(loc[t].ret.list) <= loc[t].limit
               ELSE loc[t].ret.list = <<>>

\* a returned list that an injected ad made longer than the limit, cut to the
\* limit
C18_Witness ==
    \E t \in Threads :
        /\ Returned(t) /\ ~loc[t].ret.raised
        /\ loc[t].limit > 0
        /\ Len(loc[t].items) = loc[t].limit
        /\ AdPositions(loc[t].ret.list) # {}
        /\ Len(loc[t].ret.list) = loc[t].limit


\* the videos with at least one interaction record of non-zero score
NonZeroVideos ==
    {v \in VideoIds : \E u \in Users :
        <<u, v>> \in DOMAIN interactions /\ interactions[<<u, v>>] # 0}
\* thread t has just completed step 1 of a build that fetched the interactions
CFBuilt(t) == pc[t] = "b_content" /\ "interactions" \in loc[t].fetched

\* C20: after a CF build over records of which at least one has a non-zero
\* score, the item-item similarity matrix is square and symmetric, and its
\* dimension is the number of distinct videos with a non-zero-scored
\* interaction, which is the number of columns of the user-item matrix.
C20_SquareSymmetric ==
    \A t \in Threads :
        (CFBuilt(t) /\ NonZeroVideos # {})
            => /\ cache["item_similarity_matrix"] # None
               /\ cache["user_item_matrix_df"] # None
               /\ LET sim == Val(cache["item_similarity_matrix"])
                      df == Val(cache["user_item_matrix_df"])
                      n == Cardinality(NonZeroVideos)
                  IN /\ sim.n = n
                     /\ Len(df.columns) = n
                     /\ DOMAIN sim.m = (0..(n - 1)) \X (0..(n - 1))
                     /\ \A i, j \in 0..(n - 1) : sim.m[<<i, j>>] = sim.m[<<j, i>>]

\* a CF build completed over records of two videos with non-zero scores, similar
\* to each other, and a record of score 0
C20_Witness ==
    \E t \in Threads :
        /\ CFBuilt(t)
        /\ Cardinality(NonZeroVideos) >= 2
        /\ \E p \in DOMAIN interactions : interactions[p] = 0
        /\ cache["item_similarity_matrix"] # None
        /\ \E i, j \in 0..1 : i # j /\ Val(cache["item_similarity_matrix"]).m[<<i, j>>] # 0


\* a seed of the random module: it fixes the order random.shuffle gives to the
\* ads and the values random.randint returns
Seeds == [order : Perms(AdIds), draws : DrawSeqs]
\* the shuffle and the draws of the result r are those the seed s gives
DrawnFrom(s, r) ==
    /\ r.ads = SelectSeq(s.order, LAMBDA a : a \in Range(r.ads))
    /\ r.draws = SubSeq(s.draws, 1, Len(r.draws))
\* two results were computed from the same seed
SameSeed(r1, r2) == \E s \in Seeds : DrawnFrom(s, r1) /\ DrawnFrom(s, r2)
\* two requests returned over the same records, for the same user and limit,
\* having read the same cache values, with the same seed
SameCall(t1, t2) ==
    /\ Returned(t1) /\ ~loc[t1].ret.raised
    /\ Returned(t2) /\ ~loc[t2].ret.raised
    /\ loc[t1].user = loc[t2].user /\ loc[t1].limit = loc[t2].limit
    /\ loc[t1].m0 = loc[t2].m0
    /\ loc[t1].snap = loc[t2].snap
    /\ SameSeed(loc[t1].ret, loc[t2].ret)

Contribution(f, field) ==
    CASE field = "watch_time_seconds" ->
            (IF f.watch_time_seconds > 300 THEN 2
             ELSE IF f.watch_time_seconds > 60 THEN 1 ELSE 0)
      [] field = "completed_watch" -> (IF f.completed_watch THEN 2 ELSE 0)
      [] field = "liked" ->
            (IF f.liked = Some(TRUE) THEN 3 ELSE IF f.liked = Some(FALSE) THEN -2 ELSE 0)
      [] field = "shared" -> (IF f.shared THEN 2 ELSE 0)
      [] field = "commented" -> (IF f.commented THEN 3 ELSE 0)
\* the scored fields
ScoredFields == {"watch_time_seconds", "completed_watch", "liked", "shared", "commented"}

\* C22: the score read from a row is the sum of the fixed contributions of
\* its fields (+1 above 60 s of watch time, +1 more above 300 s, +2 completed,
\* +3 liked, -2 disliked, +2 shared, +3 commented) and lies between -2 and 12.
C22_WeightedSum ==
    uvi.score # None
        => /\ Val(uvi.score)
                = SumOver([k \in ScoredFields |-> Contribution(uvi.fields, k)], ScoredFields)
           /\ Val(uvi.score) >= -2 /\ Val(uvi.score) <= 12

\* the score read from a row that is watched over 300 s, completed, liked,
\* shared and commented: the greatest score, 12
C22_Witness ==
    /\ uvi.score = Some(12)
    /\ uvi.fields.watch_time_seconds > 300 /\ uvi.fields.liked = Some(TRUE)
    /\ uvi.fields.completed_watch /\ uvi.fields.shared /\ uvi.fields.commented


\* the users with at least one interaction record of non-zero score
NonZeroUsers ==
    {u \in Users : \E v \in VideoIds :
        <<u, v>> \in DOMAIN interactions /\ interactions[<<u, v>>] # 0}
\* the cached matrix and id maps hold the records of non-zero score and nothing
\* else: the rows, the columns and the id-map entries are those of the users and
\* videos with a non-zero record, and the cell of a recorded pair is its score
OnlyNonZero(c) ==
    /\ c["user_item_matrix_df"] # None
    /\ c["user_id_to_idx"] # None /\ c["user_idx_to_id"] # None
    /\ c["video_id_to_idx"] # None /\ c["video_idx_to_id"] # None
    /\ LET df == Val(c["user_item_matrix_df"])
       IN /\ Range(df.index) = NonZeroUsers
          /\ Range(df.columns) = NonZeroVideos
          /\ \A p \in DOMAIN interactions \cap DOMAIN df.cell : df.cell[p] = interactions[p]
          /\ DOMAIN Val(c["user_id_to_idx"]) = NonZeroUsers
          /\ Range(Val(c["user_idx_to_id"])) = NonZeroUsers
          /\ DOMAIN Val(c["video_id_to_idx"]) = NonZeroVideos
          /\ Range(Val(c["video_idx_to_id"])) = NonZeroVideos
\* thread t is in a direct call of the build that has returned
BuildDone(t) == pc[t] = "done" /\ loc[t].kind = "build"

CFEligible(t) ==
    /\ loc[t].snap["user_item_matrix_df"] # None
    /\ loc[t].snap["user_id_to_idx"] # None
    /\ loc[t].user \in DOMAIN Val(loc[t].snap["user_id_to_idx"])
    /\ \E v \in VideoIds :
          CachedScoreAbove(Val(loc[t].snap["user_item_matrix_df"]), loc[t].user, v)
\* the videos of the matrix read by thread t that exist and that its user has
\* no score above 0.1 for: the candidates of the CF ranking
CFCandidates(t) ==
    LET df == Val(loc[t].snap["user_item_matrix_df"])
    IN {v \in Range(df.columns) \cap videos : ~CachedScoreAbove(df, loc[t].user, v)}

\* C30: a request of a user who is in the CF user-id map and has a cached score
\* above 0.1 takes its videos from the CF ranking, as many as it needs and the
\* ranking has, whichever matrix columns the user's interactions occupy.
C30_CFEligible ==
    \A t \in Threads :
        (Returned(t) /\ ~loc[t].ret.raised /\ HasRead(t) /\ CFEligible(t))
            => /\ loc[t].ret.cf \subseteq CFCandidates(t)
               /\ Cardinality(loc[t].ret.cf)
                     = Min(loc[t].limit - Len(loc[t].items), Cardinality(CFCandidates(t)))


\* thread t is in a forced direct build that has returned, no interaction
\* record existing
ForcedBuildDoneNoRecords(t) ==
    BuildDone(t) /\ loc[t].force /\ DOMAIN interactions = {}

BuildEnded(t) == loc[t].builds > 0 /\ pc[t] \notin BuildPcs \cup {"idle"}
\* the content and follow keys of the cache
OtherKeys == Keys \ CFKeys

\* C23: when pivoting, id-map construction or similarity computation raises
\* during a build, the call does not raise, the CF sub-state is the empty
\* default (empty matrix, no similarity, four empty id maps) and the video
\* features, the post keywords and the follows are built in that same call.
C23_CFFailure ==
    \A t \in Threads :
        (BuildEnded(t) /\ loc[t].failed = {"cf"})
            => /\ ~loc[t].ret.raised
               /\ \A k \in CFKeys : cache[k] = default_values(k)
               /\ \A k \in OtherKeys : cache[k] = Derived[k]

\* the CF sub-state of the cache c is published and the user has a score above
\* 0.1 in it
WarmIn(c, user_id) ==
    /\ \A k \in CFKeys : c[k] # None
    /\ \E v \in VideoIds : CachedScoreAbove(Val(c["user_item_matrix_df"]), user_id, v)

\* C24: a fetch of the videos or of the posts that raises during a build does
\* not block CF: a later request that finds the CF sub-state published, of a
\* user who is warm in it, does not raise.
C24_ContentFailure ==
    \A t \in Threads :
        (Returned(t) /\ ~loc[t].built /\ WarmIn(cache, loc[t].user)
                     /\ NeedsVideos(loc[t].limit - Len(loc[t].items)))
            => ~loc[t].ret.raised

\* C26: prime_recommender_cache_on_startup calls the build once, with
\* force_rebuild=True, and does not hand on an exception raised by the build.
C26_PrimeOnce ==
    \A t \in Threads :
        loc[t].kind = "prime"
            => /\ loc[t].force
               /\ loc[t].builds <= 1
               /\ pc[t] = "done" => (loc[t].builds = 1 /\ ~loc[t].ret.raised)

\* the call at startup has returned after the fetch of the videos or of the
\* posts raised in its build
C26_Witness ==
    \E t \in Threads :
        /\ loc[t].kind = "prime" /\ pc[t] = "done"
        /\ "content" \in loc[t].failed

\* the type member of what a client received
TypeOf(m) == IF get(m.json, "type") = None THEN "" ELSE Val(get(m.json, "type"))
\* the to_user_id of the client text that was passed on as m
AskedFor(m) == get(m.text.obj, "to_user_id")
\* s is an accepted chat connection whose handler has not ended
ChatRunning(s) == sockets[s].kind = "chat" /\ sockets[s].pc = "receive"
ChatEnded(s) == sockets[s].kind = "chat" /\ sockets[s].pc = "ended"

\* C27: a user_id is in active_chat_connections from the moment its chat
\* connection is accepted and its entry is gone once the handler of the
\* connection has ended; a chat message reaches only a connection of the user
\* it names, with the sender's id as from_user_id.
C27_ChatRegistry ==
    \A s \in Socks :
        /\ ChatRunning(s) => sockets[s].user_id \in DOMAIN active_chat_connections
        /\ ChatEnded(s) => ~(/\ sockets[s].user_id \in DOMAIN active_chat_connections
                             /\ active_chat_connections[sockets[s].user_id] = s)
        /\ \A m \in sockets[s].received :
              TypeOf(m) = "chat_message"
                  => /\ AskedFor(m) = Some(sockets[s].user_id)
                     /\ m.json["from_user_id"] = Some(sockets[m.by].user_id)
                     /\ m.json["content"] = m.text.obj["content"]
                     /\ \A o \in Socks \ {s} : m \notin sockets[o].received

\* s is a video connection that is a value of the dict of its room
IsMember(s) ==
    /\ sockets[s].kind = "video"
    /\ sockets[s].room_id \in DOMAIN video_rooms
    /\ s \in Registered(video_rooms[sockets[s].room_id])
\* the notice of the given type that the handler of s sends about its user
NoticeOf(type, s) == Sent(Notification(type, sockets[s].user_id), s, NoText, 0)
\* s has joined: line 104 is behind its handler, or its handler is over
PastJoin(s) == sockets[s].kind = "video" /\ sockets[s].pc # "join"
VideoEnded(s) == sockets[s].kind = "video" /\ sockets[s].pc = "ended"

\* C28: once X has joined a room, every member it found there that is still
\* connected has received user-joined for X; once the handler of X is over, X
\* is out of the room and every member that remained and is still connected has
\* received user-left for X; no room in video_rooms is empty.
C28_Membership ==
    /\ \A s \in Socks : PastJoin(s) =>
          \A m \in sockets[s].others :
              (IsMember(m) /\ sockets[m].open) => NoticeOf("user-joined", s) \in sockets[m].received
    /\ \A s \in Socks : VideoEnded(s) =>
          /\ ~IsMember(s)
          /\ \A m \in sockets[s].remaining :
                (IsMember(m) /\ sockets[m].open) => NoticeOf("user-left", s) \in sockets[m].received
    /\ \A room_id \in DOMAIN video_rooms : Used(video_rooms[room_id]) > 0

\* m is an offer, answer or ice-candidate passed on for a text that names a user
Targeted(m) == TypeOf(m) \in Signals /\ NonEmpty(AskedFor(m))

\* C29: an offer, answer or ice-candidate that names a member of the sender's
\* room reaches one connection only, the one registered in that room under the
\* name, with the sender's id as from_user_id and the data of the client text.
C29_TargetedOnly ==
    \A r \in Socks : \A m \in sockets[r].received :
        Targeted(m)
            => /\ sockets[r].kind = "video"
               /\ sockets[r].user_id = Val(AskedFor(m))
               /\ sockets[r].room_id = sockets[m.by].room_id
               /\ r = m.by => sockets[m.by].user_id = Val(AskedFor(m))
               /\ m.json["from_user_id"] = Some(sockets[m.by].user_id)
               /\ "data" \in DOMAIN m.text.obj => m.json["data"] = m.text.obj["data"]
               /\ \A o \in Socks \ {r} : m \notin sockets[o].received

\* an offer with data has reached its target while a third user was a member of
\* the room, connected
C29_Witness ==
    \E r \in Socks : \E m \in sockets[r].received :
        /\ Targeted(m) /\ r # m.by /\ IsMember(m.by)
        /\ "data" \in DOMAIN m.text.obj
        /\ \E o \in Socks \ {r, m.by} :
              /\ IsMember(o) /\ sockets[o].open /\ sockets[o].pc = "receive"
              /\ sockets[o].room_id = sockets[r].room_id

\* the videos needed by the request of thread t (line 251)
VideosNeeded(t) == loc[t].limit - Len(loc[t].items)
\* the existing videos for which the matrix the request read holds no score
\* above 0.1 of its user
Eligible(t) ==
    {v \in videos : ~CachedScoreAbove(Val(loc[t].snap["user_item_matrix_df"]), loc[t].user, v)}

\* C31: when the CF ranking yields fewer videos than needed, the number of
\* videos of the result is min(videos needed, number of existing videos the
\* user has not materially interacted with).
C31_FallbackFills ==
    \A t \in Threads :
        (/\ Returned(t) /\ ~loc[t].ret.raised
         /\ NeedsVideos(VideosNeeded(t))
         /\ Cardinality(loc[t].ret.cf) < VideosNeeded(t))
            => Cardinality(loc[t].ret.cf \cup loc[t].ret.fb)
                  = Min(VideosNeeded(t), Cardinality(Eligible(t)))

\* lines 351-380 for the request of thread t: the score by which the CF
\* ranking orders the video v of the matrix
CFScoreOf(t, v) ==
    LET snap == loc[t].snap
        df == Val(snap["user_item_matrix_df"])
        sim == Val(snap["item_similarity_matrix"])
        vec == user_interactions_vector(df, Val(snap["user_id_to_idx"])[loc[t].user])
        i == Val(snap["video_id_to_idx"])[v]
    IN boosted_score(i, aggregated_scores(sim, vec, interacted_indices(vec))[i],
                     Val(snap["video_idx_to_id"]), Val(snap["video_features_map"]),
                     Val(snap["all_post_keywords"]),
                     Get(Val(snap["user_follows_map"]), loc[t].user, {}), videos)
\* lines 303-327 for the request of thread t: the fallback score of the video v
FallbackScoreOf(t, v) ==
    fallback_score(v, Val(loc[t].snap["video_features_map"]),
                   Val(loc[t].snap["all_post_keywords"]),
                   Get(Val(loc[t].snap["user_follows_map"]), loc[t].user, {}), posts)
\* the positions i < j of the list l hold videos of the set S
VideoPair(l, i, j, S) ==
    /\ i < j
    /\ l[i].type = "video" /\ l[i].id \in S
    /\ l[j].type = "video" /\ l[j].id \in S

\* C32: of two videos of equal score the one uploaded later (the one with the
\* larger id, as upload_timestamp grows with the id) comes first, among the
\* videos of the CF ranking and among those of the fallback ranking.
C32_TieBreak ==
    \A t \in Threads :
        (Returned(t) /\ ~loc[t].ret.raised)
            => LET l == loc[t].ret.list
               IN \A i, j \in DOMAIN l :
                    /\ (VideoPair(l, i, j, loc[t].ret.cf)
                        /\ CFScoreOf(t, l[i].id) = CFScoreOf(t, l[j].id))
                          => l[i].id > l[j].id
                    /\ (VideoPair(l, i, j, loc[t].ret.fb)
                        /\ FallbackScoreOf(t, l[i].id) = FallbackScoreOf(t, l[j].id))
                          => l[i].id > l[j].id

\* the number of post keywords the features of the video v hold, as the request
\* of thread t read them
KeywordMatches(t, v) ==
    Cardinality(Get(Val(loc[t].snap["video_features_map"]), v, {})
                    \cap Val(loc[t].snap["all_post_keywords"]))
\* the requesting user of thread t follows the uploader of the video v
FollowsUploader(t, v) ==
    VideoUploader(v) \in Get(Val(loc[t].snap["user_follows_map"]), loc[t].user, {})
\* the largest number of matching keywords looked at
MaxMatches == 4
\* the boost a followed creator adds at k matching keywords, in 1/100
FollowGain(k) == score_before_engagement(k, TRUE) - score_before_engagement(k, FALSE)

\* C33: before the engagement terms the fallback score of a video with k
\* matching keywords is 0.1*k when its uploader is not followed and
\* 0.1*k + 0.5*(1 + 0.1*k) = 0.5 + 0.15*k when followed; the followed score is
\* strictly higher and the boost grows with k.
C33_FollowCompounds ==
    /\ \A t \in Threads :
         (Returned(t) /\ ~loc[t].ret.raised) =>
            \A v \in loc[t].ret.fb :
               FallbackScoreOf(t, v) - engagement_score(v, posts)
                  = IF FollowsUploader(t, v) THEN 50 + 15 * KeywordMatches(t, v)
                    ELSE 10 * KeywordMatches(t, v)
    /\ \A k \in 0..MaxMatches :
         /\ score_before_engagement(k, FALSE) = 10 * k
         /\ score_before_engagement(k, TRUE) = 50 + 15 * k
         /\ FollowGain(k) > 0
         /\ k < MaxMatches => FollowGain(k + 1) > FollowGain(k)
\* a request returned a fallback video of a followed uploader that matches a keyword
C33_Witness ==
    \E t \in Threads :
        /\ Returned(t) /\ ~loc[t].ret.raised
        /\ \E v \in loc[t].ret.fb : FollowsUploader(t, v) /\ KeywordMatches(t, v) > 0

\* the dicts id2idx and idx2id are inverse bijections between the ids of the
\* sequence ids and 0..n-1
InverseMaps(id2idx, idx2id, ids) ==
    /\ DOMAIN id2idx = Range(ids)
    /\ DOMAIN idx2id = 0..(Len(ids) - 1)
    /\ Cardinality(Range(ids)) = Len(ids)
    /\ \A x \in DOMAIN id2idx : id2idx[x] \in DOMAIN idx2id /\ idx2id[id2idx[x]] = x
    /\ \A i \in DOMAIN idx2id : idx2id[i] \in DOMAIN id2idx /\ id2idx[idx2id[i]] = i
\* the four id maps of the cache c
IdMapKeys == {"video_id_to_idx", "video_idx_to_id", "user_id_to_idx", "user_idx_to_id"}
\* the id maps of the cache c agree with its matrix
MapsAgree(c) ==
    /\ \A k \in IdMapKeys \cup {"user_item_matrix_df"} : c[k] # None
    /\ LET df == Val(c["user_item_matrix_df"])
       IN /\ InverseMaps(Val(c["video_id_to_idx"]), Val(c["video_idx_to_id"]), df.columns)
          /\ InverseMaps(Val(c["user_id_to_idx"]), Val(c["user_idx_to_id"]), df.index)
          /\ IsEmptyDF(df) => \A k \in IdMapKeys : DOMAIN Val(c[k]) = {}

\* C35: after every completed build the video id maps are inverse bijections
\* between the column ids of the cached matrix and 0..n-1, the user id maps
\* likewise for its rows, and with an empty cached matrix the four maps are
\* empty.
C35_InverseMaps ==
    \A t \in Threads : BuildEnded(t) /\ (\A b \in Threads : ~Building(b)) => MapsAgree(cache)
\* a build has ended with a matrix of two videos at least
C35_Witness ==
    \E t \in Threads :
        /\ BuildEnded(t) /\ (\A b \in Threads : ~Building(b))
        /\ cache["user_item_matrix_df"] # None
        /\ Len(Val(cache["user_item_matrix_df"]).columns) >= 2
\* a build has ended with an empty matrix while interaction records exist
C35_EmptyCase ==
    \E t \in Threads :
        /\ BuildEnded(t) /\ (\A b \in Threads : ~Building(b))
        /\ cache["user_item_matrix_df"] # None
        /\ IsEmptyDF(Val(cache["user_item_matrix_df"]))
        /\ DOMAIN interactions # {}

\* thread t is in a request that is about to make the call of line 260
RequestBuilds(t) == pc[t] = "b_start" /\ loc[t].kind = "request"

\* C37: while no source data has changed a request calls the build only when the
\* cache has never been populated, that is, with every key still None: after a
\* completed build no request builds again, whatever the records are.
C37_NoFurtherBuild ==
    \A t \in Threads :
        (RequestBuilds(t) /\ changes = 0 /\ \A b \in Threads \ {t} : pc[b] = "idle")
            => cache = NoCache

\* the positions i < j of the list l hold posts
PostPair(l, i, j) == i < j /\ l[i].type = "post" /\ l[j].type = "post"

\* C38: in a returned feed, ads aside, every post precedes every video, the
\* posts of superusers precede the other posts, each of the two groups of posts
\* is newest first (created_at grows with the id), there are no more videos than
\* the slots the posts leave free, and no post is by the requesting user when
\* that user exists.
C38_FeedOrder ==
    \A t \in Threads :
        (Returned(t) /\ ~loc[t].ret.raised)
            => LET l == loc[t].ret.list
               IN /\ \A i, j \in DOMAIN l :
                        (i < j /\ l[i].type = "video") => l[j].type # "post"
                  /\ \A i, j \in DOMAIN l :
                        PostPair(l, i, j) =>
                           /\ IsSuperuser(PostUser(l[j].id)) => IsSuperuser(PostUser(l[i].id))
                           /\ (IsSuperuser(PostUser(l[i].id)) = IsSuperuser(PostUser(l[j].id)))
                                 => l[i].id > l[j].id
                  /\ Cardinality(VideosOf(l)) <= Max(loc[t].limit - Len(loc[t].items), 0)
                  /\ Cardinality(loc[t].ret.cf \cup loc[t].ret.fb)
                        <= Max(loc[t].limit - Len(loc[t].items), 0)
                  /\ loc[t].user \in Users =>
                        \A i \in DOMAIN l : l[i].type = "post" => PostUser(l[i].id) # loc[t].user
\* a returned feed with two posts of superusers, two other posts, videos and an ad
C38_Witness ==
    \E t \in Threads :
        /\ Returned(t) /\ ~loc[t].ret.raised
        /\ LET l == loc[t].ret.list
           IN /\ Cardinality({i \in DOMAIN l : l[i].type = "post"
                                                /\ IsSuperuser(PostUser(l[i].id))}) >= 2
              /\ Cardinality({i \in DOMAIN l : l[i].type = "post"
                                                /\ ~IsSuperuser(PostUser(l[i].id))}) >= 2
              /\ VideosOf(l) # {}
              /\ \E i \in DOMAIN l : l[i].type = "ad"
\* a returned feed for an existing user some of whose posts exist
C38_OwnPosts ==
    \E t \in Threads :
        /\ Returned(t) /\ ~loc[t].ret.raised
        /\ loc[t].user \in Users
        /\ \E p \in posts : PostUser(p) = loc[t].user
        /\ \E i \in DOMAIN loc[t].ret.list : loc[t].ret.list[i].type = "post"

\* the characters of the token are lower-case
IsLower(token) == \A i \in DOMAIN token : Lower(token[i]) = token[i]
\* the token is a word: word characters only
IsWord(token) == token # <<>> /\ \A i \in DOMAIN token : token[i] \in WordChars
\* the token is the character c followed by a word
IsTagged(token, c) == Len(token) >= 2 /\ token[1] = c /\ IsWord(Tail(token))
\* the hashtags and mentions that occur in the text s
TagsIn(s) ==
    {SubSeq(s, i, j) : <<i, j>> \in
        {p \in (DOMAIN s) \X (DOMAIN s) :
            /\ s[p[1]] \in {"#", "@"}
            /\ p[1] < p[2]
            /\ \A k \in (p[1] + 1)..p[2] : s[k] \in WordChars
            /\ (p[2] = Len(s) \/ s[p[2] + 1] \notin WordChars)}}

\* C39: a null or empty text gives no token; every token is lower-case and is
\* a hashtag, a mention or a plain word longer than 2; every hashtag and
\* mention of the text is kept, whatever its length; tokenizing the
\* space-joined tokens again gives the same tokens.
C39_Tokens ==
    /\ _tokenize_text(None) = <<>>
    /\ tok.tokens # None =>
         LET tokens == Val(tok.tokens)
         IN /\ Val(tok.text) = <<>> => tokens = <<>>
            /\ \A i \in DOMAIN tokens :
                  /\ IsLower(tokens[i])
                  /\ \/ IsTagged(tokens[i], "#")
                     \/ IsTagged(tokens[i], "@")
                     \/ IsWord(tokens[i]) /\ Len(tokens[i]) > 2
            /\ TagsIn(LowerText(Val(tok.text))) \subseteq Range(tokens)
    /\ tok.again # None => Val(tok.again) = Val(tok.tokens)
\* a text with upper case was tokenized twice; it holds a hashtag of one
\* letter and a word of three, both kept
C39_Witness ==
    /\ tok.again # None
    /\ \E i \in DOMAIN Val(tok.text) : Val(tok.text)[i] = "A"
    /\ <<"#", "a">> \in Range(Val(tok.tokens))
    /\ <<"a", "a", "a">> \in Range(Val(tok.tokens))
    /\ Len(Val(tok.tokens)) = 2
    /\ Len(Val(tok.text)) = MaxTextLen

\* no handler is in the middle of a request
Quiet == \A h \in Handlers : hs[h].pc \in {"idle", "done"}

\* C34: whatever the interleaving of post likes and unlikes, comments,
\* engagement reports and POSTs to the interactions endpoint, the pair has at
\* most one interaction record and no write fails: a write for an existing pair
\* updates its record.
C34_OneRecord ==
    /\ db.uvi.n <= 1
    /\ \A h \in Handlers : ~hs[h].failed

\* C36: once the handlers of the keyword-activity events have returned, the
\* stored score of each keyword of the interest profile is the sum of the
\* interaction scores of the activity records created for it, and saving an
\* existing record again changes nothing.
C36_ProfileSums ==
    /\ Quiet => \A k \in ActivityKeywords : db.keywords_summary[k] = db.logged[k]
    /\ \A h \in Handlers :
          (hs[h].op = "resave" /\ (\A g \in Handlers \ {h} : hs[g].pc = "idle"))
              => \A k \in ActivityKeywords : db.keywords_summary[k] = db.logged[k]

\* the AdImpression rows of the ad a
ImpressionsOf(a) == SumOver([u \in Users |-> db.ad_impressions[<<a, u>>]], Users)

\* C40: whatever the interleaving of track-impression requests, there is at
\* most one AdImpression row per (ad, user, date), so the count compared with
\* the cap is never above 1, and once the requests have returned Ad.impressions
\* is the number of AdImpression rows of the ad.
C40_ImpressionCount ==
    /\ \A p \in AdIds \X Users :
          db.ad_impressions[p] <= 1 /\ db.ad_impressions[p] < MaxImpressionsPerDay
    /\ Quiet => \A a \in AdIds : db.ad[a] = ImpressionsOf(a)

====
